---------------------------- MODULE Spec2Model ----------------------------
(***************************************************************************)
(* Symbolic object / scope engine of `unused` (src/unused/_core).          *)
(*                                                                         *)
(* The object graph is a heap: a sequence of records, one per Scope or     *)
(* Object instance, an object's identity being its index.  Every method    *)
(* of the object model is an operator from a heap to an outcome            *)
(* [st, obj, h]: st is "ok" or the name of the exception raised, obj the   *)
(* returned object (0 when none) and h the heap the call leaves behind.    *)
(***************************************************************************)
EXTENDS Integers, Sequences, FiniteSets, TLC

VARIABLES
    heap,       \* the object graph: Seq of records (see NewRecord)
    call,       \* the operation applied by the last step
    res,        \* its outcome: [st, obj]
    returned,   \* history: <<object, name, result>> of successful get_attribute calls
    MODULES,    \* modules.MODULES: module path -> heap index, 0 when absent
    files,      \* module_file_paths and the statements of every source file
    stack,      \* activation records of _load_module_path_namespace / ScopeParser
    exc,        \* the exception in flight ("" when none)
    log,        \* history of loader calls: [path, st, obj, hit]
    cache       \* the verdicts _does_function_modify_caller_global_state keeps

objVars == <<heap, call, res, returned>>
loadVars == <<MODULES, files, stack, exc, log, cache>>
vars == <<heap, call, res, returned, MODULES, files, stack, exc, log, cache>>

-----------------------------------------------------------------------------
(* Bounds of the model *)

MaxNew == 3         \* objects allocated after Init in an object-model run
MaxPath == 2        \* components of a nested path

-----------------------------------------------------------------------------
(* enums.py *)

SYNTHESIZING_SCOPE_KINDS ==
    {"BUILTIN_MODULE", "DYNAMIC_MODULE", "EXTENSION_MODULE", "UNKNOWN_CLASS"}

MODULE_SCOPE_KINDS ==
    {"BUILTIN_MODULE", "DYNAMIC_MODULE", "EXTENSION_MODULE", "STATIC_MODULE"}

CLASS_SCOPE_KINDS == {"CLASS", "METACLASS", "UNKNOWN_CLASS"}

ScopeKind == MODULE_SCOPE_KINDS \cup CLASS_SCOPE_KINDS \cup {"FUNCTION"}

PLAIN_OBJECT_KINDS == {"INSTANCE", "PROPERTY", "ROUTINE_CALL"}

INCLUDABLE_OBJECT_KINDS ==
    {"CLASS", "BUILTIN_MODULE", "DYNAMIC_MODULE", "EXTENSION_MODULE",
     "METACLASS", "STATIC_MODULE", "UNKNOWN", "UNKNOWN_CLASS"}

\* Concrete values: constants, the mapping as_object() returns for an object
\* (identified by the object it is a view of) and the MISSING sentinel.
Const(k) == [tag |-> "const", v |-> k]
View(o) == [tag |-> "view", v |-> o]
MISSING == [tag |-> "MISSING", v |-> 0]

-----------------------------------------------------------------------------
(* Heap records *)

EmptyMap == [x \in {} |-> 0]

MapSet(f, k, v) == [x \in DOMAIN f \cup {k} |-> IF x = k THEN v ELSE f[x]]

MapDel(f, k) == [x \in DOMAIN f \ {k} |-> f[x]]

\* cls: "Scope", "Class", "PlainObject", "Method", "Routine", "Module",
\* "UnknownObject"; objects is _objects (_attributes of a Class); included is
\* _included_objects (_bases of a Class, _base_classes of a Routine); scope
\* is _scope (0 when the variant has none); metaclass 0 stands for MISSING.
NewRecord(cls, kind, module_path, local_path, included, scope, metaclass) ==
    [cls |-> cls, kind |-> kind,
     module_path |-> module_path, local_path |-> local_path,
     objects |-> EmptyMap, values |-> EmptyMap,
     included |-> included, scope |-> scope, metaclass |-> metaclass,
     routine |-> 0, instance |-> 0]

NewUnknownObject(module_path, local_path) ==
    NewRecord("UnknownObject", "UNKNOWN", module_path, local_path, <<>>, 0, 0)

NewScope(kind, module_path, local_path) ==
    NewRecord("Scope", kind, module_path, local_path, <<>>, 0, 0)

Alloc(h, rec) == Append(h, rec)

Outcome(st, obj, h) == [st |-> st, obj |-> obj, h |-> h]

\* the statement `v = x` followed by Rest(v): x is computed once
Bind(x, Rest(_)) == CHOOSE y \in {Rest(v) : v \in {x}} : TRUE


-----------------------------------------------------------------------------
(* object_.py: kinds and Method construction *)

\* The `kind` property of every variant.
KindOf(h, o) ==
    CASE h[o].cls \in {"Class", "Module"} -> h[h[o].scope].kind
      [] h[o].cls = "UnknownObject" -> "UNKNOWN"
      [] h[o].cls = "Routine" -> "ROUTINE"
      [] h[o].cls = "Method" -> "METHOD"
      [] OTHER -> h[o].kind

Last(s) == s[Len(s)]

\* Method(routine, instance): a new object each time it is evaluated.
NewMethod(h, routine, instance) ==
    [NewRecord("Method", "METHOD", h[instance].module_path,
               Append(h[instance].local_path, Last(h[routine].local_path)),
               <<>>, 0, 0)
        EXCEPT !.objects = [x \in {"__self__", "__func__"} |->
                                IF x = "__self__" THEN instance ELSE routine],
               !.routine = routine, !.instance = instance]

WrapMethod_plain(h, routine, instance) == Outcome("ok", routine, h)

WrapMethod(h, routine, instance) ==
    Outcome("ok", Len(h) + 1, Alloc(h, NewMethod(h, routine, instance)))

\* Binds a fresh UnknownObject under name n in the own table of o.
Synthesize(h, o, n) ==
    LET child == NewUnknownObject(h[o].module_path, Append(h[o].local_path, n))
        h1 == Alloc(h, child)
    IN  Outcome("ok", Len(h1),
                [h1 EXCEPT ![o].objects = MapSet(h[o].objects, n, Len(h1))])

-----------------------------------------------------------------------------
(* object_.py / scope.py: get_attribute and get_object *)

RECURSIVE GetAttribute(_, _, _)
RECURSIVE Scope_get_object(_, _, _)
RECURSIVE Scope_get_included(_, _, _, _)
RECURSIVE Class_get_attribute(_, _, _)
RECURSIVE Class_get_from_bases(_, _, _, _)
RECURSIVE PlainObject_get_attribute(_, _, _)
RECURSIVE PlainObject_get_included(_, _, _, _)
RECURSIVE Routine_get_from_bases(_, _, _, _)

\* a get_attribute that forgets the child it creates
UnknownObject_get_attribute_unstored(h, o, n) ==
    LET h1 == Alloc(h, NewUnknownObject(h[o].module_path,
                                        Append(h[o].local_path, n)))
    IN  Outcome("ok", Len(h1), h1)

\* UnknownObject.get_attribute
UnknownObject_get_attribute(h, o, n) ==
    IF n \in DOMAIN h[o].objects
    THEN Outcome("ok", h[o].objects[n], h)
    ELSE Synthesize(h, o, n)

\* the loop over self._included_objects of Scope.get_object
Scope_get_included(h, s, i, n) ==
    IF i > Len(h[s].included)
    THEN Outcome("KeyError", 0, h)
    ELSE Bind(GetAttribute(h, h[s].included[i], n), LAMBDA r :
              IF r.st = "KeyError"
              THEN Scope_get_included(r.h, s, i + 1, n)
              ELSE r)

\* a get_object that synthesizes on a total miss whatever the scope kind
Scope_get_object_open(h, s, n) ==
    IF n \in DOMAIN h[s].objects
    THEN Outcome("ok", h[s].objects[n], h)
    ELSE Bind(Scope_get_included(h, s, 1, n), LAMBDA r :
              IF r.st # "KeyError" THEN r ELSE Synthesize(r.h, s, n))

\* Scope.get_object
Scope_get_object(h, s, n) ==
    IF n \in DOMAIN h[s].objects
    THEN Outcome("ok", h[s].objects[n], h)
    ELSE Bind(Scope_get_included(h, s, 1, n), LAMBDA r :
              IF r.st # "KeyError"
              THEN r
              ELSE IF h[s].kind \in SYNTHESIZING_SCOPE_KINDS
                   THEN IF n \in DOMAIN r.h[s].objects
                        THEN Outcome("AssertionError", 0, r.h)
                        ELSE Synthesize(r.h, s, n)
                   ELSE r)

\* the loop over self._bases of Class.get_attribute
Class_get_from_bases(h, c, i, n) ==
    IF i > Len(h[c].included)
    THEN Outcome("KeyError", 0, h)
    ELSE Bind(GetAttribute(h, h[c].included[i], n), LAMBDA r :
              IF r.st = "KeyError"
              THEN Class_get_from_bases(r.h, c, i + 1, n)
              ELSE r)

\* the metaclass step and the UNKNOWN_CLASS fallback of Class.get_attribute;
\* metaclass is 0 for MISSING, -1 for None, else an object.
Class_get_from_metaclass(h, c, n) ==
    LET fallback(hh) ==
            IF KindOf(hh, c) = "UNKNOWN_CLASS"
            THEN IF n \in DOMAIN hh[c].objects
                 THEN Outcome("AssertionError", 0, hh)
                 ELSE Synthesize(hh, c, n)
            ELSE Outcome("KeyError", 0, hh)
    IN  IF h[c].metaclass = 0
        THEN fallback(h)
        ELSE IF KindOf(h, c) # "CLASS"
             THEN Outcome("AssertionError", 0, h)
             ELSE IF h[c].metaclass = -1
                  THEN Outcome("AttributeError", 0, h)
                  ELSE Bind(GetAttribute(h, h[c].metaclass, n), LAMBDA r :
                            IF r.st # "KeyError"
                            THEN IF r.st = "ok" /\ KindOf(r.h, r.obj) = "ROUTINE"
                                 THEN WrapMethod(r.h, r.obj, c)
                                 ELSE r
                            ELSE fallback(r.h))

\* Class.get_attribute
Class_get_attribute(h, c, n) ==
    IF n \in DOMAIN h[c].objects
    THEN LET candidate == h[c].objects[n]
         IN  IF /\ KindOf(h, c) = "CLASS"
                /\ KindOf(h, candidate) = "ROUTINE"
                /\ n \in {"__init_subclass__", "__new__"}
             THEN WrapMethod(h, candidate, c)
             ELSE Outcome("ok", candidate, h)
    ELSE Bind(Scope_get_object(h, h[c].scope, n), LAMBDA r1 :
              IF r1.st # "KeyError"
              THEN r1
              ELSE Bind(Class_get_from_bases(r1.h, c, 1, n), LAMBDA r2 :
                        IF r2.st # "KeyError"
                        THEN r2
                        ELSE Class_get_from_metaclass(r2.h, c, n)))

\* the loop over self._included_objects of PlainObject.get_attribute
PlainObject_get_included(h, o, i, n) ==
    IF i > Len(h[o].included)
    THEN Outcome("KeyError", 0, h)
    ELSE Bind(GetAttribute(h, h[o].included[i], n), LAMBDA r :
              IF r.st = "KeyError"
              THEN PlainObject_get_included(r.h, o, i + 1, n)
              ELSE IF /\ r.st = "ok"
                      /\ KindOf(r.h, r.obj) = "ROUTINE"
                      /\ h[o].kind = "INSTANCE"
                      /\ KindOf(r.h, h[o].included[i]) = "CLASS"
                   THEN WrapMethod(r.h, r.obj, o)
                   ELSE r)

\* PlainObject.get_attribute
PlainObject_get_attribute(h, o, n) ==
    IF n \in DOMAIN h[o].objects
    THEN Outcome("ok", h[o].objects[n], h)
    ELSE Bind(PlainObject_get_included(h, o, 1, n), LAMBDA r :
              IF r.st # "KeyError"
              THEN r
              ELSE IF h[o].kind \in {"ROUTINE_CALL", "INSTANCE", "PROPERTY"}
                   THEN IF n \in DOMAIN r.h[o].objects
                        THEN Outcome("AssertionError", 0, r.h)
                        ELSE Synthesize(r.h, o, n)
                   ELSE r)

\* the loop over self._base_classes of Routine.strict_get_attribute
Routine_get_from_bases(h, o, i, n) ==
    IF i > Len(h[o].included)
    THEN Outcome("KeyError", 0, h)
    ELSE Bind(GetAttribute(h, h[o].included[i], n), LAMBDA r :
              IF r.st = "KeyError"
              THEN Routine_get_from_bases(r.h, o, i + 1, n)
              ELSE IF r.st = "ok" /\ KindOf(r.h, r.obj) = "ROUTINE"
                   THEN WrapMethod(r.h, r.obj, o)
                   ELSE r)

\* Routine.get_attribute (= Routine.strict_get_attribute)
Routine_get_attribute(h, o, n) ==
    IF n \in DOMAIN h[o].objects
    THEN Outcome("ok", h[o].objects[n], h)
    ELSE Routine_get_from_bases(h, o, 1, n)

\* Method.get_attribute (= Method.strict_get_attribute); the class attribute
\* BASE_CLS is declared and never assigned, so reading it raises.
Method_get_attribute(h, o, n) ==
    IF n \in DOMAIN h[o].objects
    THEN Outcome("ok", h[o].objects[n], h)
    ELSE Outcome("AttributeError", 0, h)

\* Module.get_attribute
Module_get_attribute(h, m, n) ==
    Bind(Scope_get_object(h, h[m].scope, n), LAMBDA r :
         IF r.st = "KeyError"
            /\ KindOf(r.h, m) \in
                 {"BUILTIN_MODULE", "DYNAMIC_MODULE", "EXTENSION_MODULE"}
         THEN Synthesize(r.h, h[m].scope, n)
         ELSE r)

\* object_get_attribute: dispatch on the variant
GetAttribute(h, o, n) ==
    CASE h[o].cls = "UnknownObject" -> UnknownObject_get_attribute(h, o, n)
      [] h[o].cls = "Scope" -> Scope_get_object(h, o, n)
      [] h[o].cls = "Class" -> Class_get_attribute(h, o, n)
      [] h[o].cls = "PlainObject" -> PlainObject_get_attribute(h, o, n)
      [] h[o].cls = "Routine" -> Routine_get_attribute(h, o, n)
      [] h[o].cls = "Method" -> Method_get_attribute(h, o, n)
      [] h[o].cls = "Module" -> Module_get_attribute(h, o, n)


\* get_nested_attribute / Scope.get_nested_object: functools.reduce over the
\* components, starting at object o.
RECURSIVE GetNestedAttribute(_, _, _)
GetNestedAttribute(h, o, path) ==
    IF Len(path) = 0
    THEN Outcome("ok", o, h)
    ELSE Bind(GetAttribute(h, o, Head(path)), LAMBDA r :
              IF r.st # "ok" THEN r ELSE GetNestedAttribute(r.h, r.obj, Tail(path)))

-----------------------------------------------------------------------------
(* object_.py / scope.py: the binding table and the value table *)

\* The record that holds the tables of o: the scope of a Module, else o.
Holder(h, o) == IF h[o].cls = "Module" THEN h[o].scope ELSE o

Objects(h, o) == h[Holder(h, o)].objects
Values(h, o) == h[Holder(h, o)].values

\* set_attribute / Scope.set_object
SetAttribute(h, o, n, t) ==
    IF h[o].cls = "Method"
    THEN Outcome("AttributeError", 0, h)
    ELSE Outcome("ok", 0,
                 [h EXCEPT ![Holder(h, o)].objects = MapSet(@, n, t)])

\* Scope.delete_object
Scope_delete_object(h, s, n) ==
    IF n \in DOMAIN h[s].objects
    THEN Outcome("ok", 0, [h EXCEPT ![s].objects = MapDel(@, n)])
    ELSE Outcome("KeyError", 0, h)

\* Class.set_value: the assignment after the MISSING branch is unconditional.
Class_set_value(h, c, n, v) ==
    IF n \notin DOMAIN h[c].objects
    THEN Outcome("AssertionError", 0, h)
    ELSE IF v = MISSING /\ n \notin DOMAIN h[c].values
         THEN Outcome("AssertionError", 0, h)
         ELSE Outcome("ok", 0, [h EXCEPT ![c].values = MapSet(@, n, v)])

\* set_value of Scope, PlainObject, Routine and UnknownObject
Plain_set_value(h, o, n, v) ==
    IF n \notin DOMAIN h[o].objects
    THEN Outcome("AssertionError", 0, h)
    ELSE IF v = MISSING
         THEN IF n \notin DOMAIN h[o].values
              THEN Outcome("AssertionError", 0, h)
              ELSE Outcome("ok", 0, [h EXCEPT ![o].values = MapDel(@, n)])
         ELSE Outcome("ok", 0, [h EXCEPT ![o].values = MapSet(@, n, v)])

\* set_value: dispatch on the variant (Module delegates to its scope)
SetValue(h, o, n, v) ==
    CASE h[o].cls = "Method" -> Outcome("AttributeError", 0, h)
      [] h[o].cls = "Class" -> Class_set_value(h, o, n, v)
      [] OTHER -> Plain_set_value(h, Holder(h, o), n, v)

\* safe_delete_value: _values.pop(name, MISSING)
SafeDeleteValue(h, o, n) ==
    IF h[o].cls = "Method"
    THEN Outcome("AttributeError", 0, h)
    ELSE Outcome("ok", 0, [h EXCEPT ![Holder(h, o)].values = MapDel(@, n)])

\* a mark_module_as_dynamic that accepts every kind
Scope_mark_module_as_dynamic_unchecked(h, s) ==
    Outcome("ok", 0, [h EXCEPT ![s].kind = "DYNAMIC_MODULE"])

\* Scope.mark_module_as_dynamic
Scope_mark_module_as_dynamic(h, s) ==
    IF h[s].kind # "STATIC_MODULE"
    THEN Outcome("AssertionError", 0, h)
    ELSE Outcome("ok", 0, [h EXCEPT ![s].kind = "DYNAMIC_MODULE"])

\* `object_ in self._included_objects`: identity, else __eq__, which compares
\* the fields of two objects of the same variant.
ObjectIn(h, o, seq) ==
    \E i \in 1..Len(seq) : seq[i] = o \/ h[seq[i]] = h[o]

\* Scope.include_object
Scope_include_object(h, s, o) ==
    IF KindOf(h, o) \notin INCLUDABLE_OBJECT_KINDS \/ ObjectIn(h, o, h[s].included)
    THEN Outcome("AssertionError", 0, h)
    ELSE Outcome("ok", 0, [h EXCEPT ![s].included = Append(@, o)])

\* ScopeParser.visit_Call, the `__dict__.update` branch: the module scope is
\* marked only while it is still STATIC_MODULE.
visit_Call_dict_update(h, s) ==
    IF h[s].kind = "STATIC_MODULE"
    THEN Scope_mark_module_as_dynamic(h, s)
    ELSE Outcome("ok", 0, h)

\* ScopeParser.visit_ImportFrom, the `*` alias: the module object m becomes
\* an included object of the importing scope s.
visit_ImportFrom_star(h, s, m) ==
    IF h[s].kind \notin {"DYNAMIC_MODULE", "STATIC_MODULE"}
    THEN Outcome("AssertionError", 0, h)
    ELSE Scope_include_object(h, s, m)

-----------------------------------------------------------------------------
(* object_.py / scope.py: set_nested_value *)

Front(s) == SubSeq(s, 1, Len(s) - 1)

\* The loop of Scope/Routine/UnknownObject.set_nested_value: it writes the
\* _values dictionaries directly, materialising as_object() of every
\* intermediate attribute on first write.
RECURSIVE WriteValuesAlong(_, _, _, _, _)
WriteValuesAlong(h, o, components, last, v) ==
    IF Len(components) = 0
    THEN Outcome("ok", 0, [h EXCEPT ![Holder(h, o)].values = MapSet(@, last, v)])
    ELSE Bind(IF Head(components) \in DOMAIN Values(h, o)
              THEN Outcome("ok", 0, h)
              ELSE Bind(GetAttribute(h, o, Head(components)), LAMBDA g :
                        IF g.st # "ok"
                        THEN g
                        ELSE Outcome("ok", 0,
                                [g.h EXCEPT ![Holder(g.h, o)].values =
                                    MapSet(@, Head(components), View(g.obj))])),
              LAMBDA r1 :
              IF r1.st # "ok"
              THEN r1
              ELSE Bind(GetAttribute(r1.h, o, Head(components)), LAMBDA r2 :
                        IF r2.st # "ok"
                        THEN r2
                        ELSE WriteValuesAlong(r2.h, r2.obj, Tail(components),
                                              last, v)))

\* Scope.set_nested_value
Scope_set_nested_value(h, s, path, v) ==
    Bind(GetNestedAttribute(h, s, path), LAMBDA chk :
         IF chk.st # "ok"
         THEN chk
         ELSE IF v = MISSING \/ Len(path) = 0
              THEN Outcome("AssertionError", 0, chk.h)
              ELSE IF Len(path) = 1
                   THEN Outcome("ok", 0,
                           [chk.h EXCEPT ![s].values = MapSet(@, path[1], v)])
                   ELSE Bind(Scope_get_object(chk.h, s, path[1]), LAMBDA first :
                             IF first.st # "ok"
                             THEN first
                             ELSE WriteValuesAlong(first.h, first.obj,
                                      Tail(Front(path)), Last(path), v)))

\* UnknownObject.set_nested_value
UnknownObject_set_nested_value(h, o, path, v) ==
    Bind(GetNestedAttribute(h, o, path), LAMBDA chk :
         IF chk.st # "ok"
         THEN chk
         ELSE IF chk.h[chk.obj].cls # "UnknownObject" \/ v = MISSING
              THEN Outcome("AssertionError", 0, chk.h)
              ELSE WriteValuesAlong(chk.h, o, Front(path), Last(path), v))

-----------------------------------------------------------------------------
(* lookup.py, construction.py, scope_parser.py: names, assignments, classes *)

RECURSIVE StrictOver(_, _, _, _)
RECURSIVE StrictGetAttribute(_, _, _)

\* the loops `for x in ...: try: return x.strict_get_attribute(name)`
StrictOver(h, objs, i, n) ==
    IF i > Len(objs)
    THEN Outcome("KeyError", 0, h)
    ELSE Bind(StrictGetAttribute(h, objs[i], n), LAMBDA r :
              IF r.st = "KeyError" THEN StrictOver(r.h, objs, i + 1, n) ELSE r)

\* a strict_get_object that falls back to get_object
Scope_strict_get_object_synthesizing(h, s, n) == Scope_get_object(h, s, n)

\* Scope.strict_get_object
Scope_strict_get_object(h, s, n) ==
    IF n \in DOMAIN h[s].objects
    THEN Outcome("ok", h[s].objects[n], h)
    ELSE StrictOver(h, h[s].included, 1, n)

\* Class.strict_get_attribute
Class_strict_get_attribute(h, c, n) ==
    IF n \in DOMAIN h[c].objects
    THEN Outcome("ok", h[c].objects[n], h)
    ELSE Bind(Scope_strict_get_object(h, h[c].scope, n), LAMBDA r1 :
              IF r1.st # "KeyError"
              THEN r1
              ELSE
         Bind(StrictOver(r1.h, h[c].included, 1, n), LAMBDA r2 :
              IF r2.st # "KeyError" \/ h[c].metaclass = 0
              THEN r2
              ELSE IF h[c].metaclass = -1
                   THEN Outcome("AttributeError", 0, r2.h)
                   ELSE StrictGetAttribute(r2.h, h[c].metaclass, n)))

\* strict_get_attribute: dispatch on the variant
StrictGetAttribute(h, o, n) ==
    CASE h[o].cls = "Module" -> Scope_strict_get_object(h, h[o].scope, n)
      [] h[o].cls = "Class" -> Class_strict_get_attribute(h, o, n)
      [] h[o].cls = "PlainObject" ->
            IF n \in DOMAIN h[o].objects
            THEN Outcome("ok", h[o].objects[n], h)
            ELSE StrictOver(h, h[o].included, 1, n)
      [] h[o].cls = "UnknownObject" ->
            IF n \in DOMAIN h[o].objects
            THEN Outcome("ok", h[o].objects[n], h)
            ELSE Outcome("KeyError", 0, h)
      [] h[o].cls = "Routine" -> Routine_get_attribute(h, o, n)
      [] h[o].cls = "Method" -> Method_get_attribute(h, o, n)

RECURSIVE FirstFound(_, _, _, _)
\* lookup_object_by_name, its two loops in sequence: the first of the scopes
\* that answers n by strict_get_object, else the first that answers it by
\* get_object; attempt i is strict for i <= Len(scopes)
FirstFound(h, n, scopes, i) ==
    IF i > 2 * Len(scopes)
    THEN Outcome("NameError", 0, h)
    ELSE Bind(IF i <= Len(scopes)
              THEN Scope_strict_get_object(h, scopes[i], n)
              ELSE Scope_get_object(h, scopes[i - Len(scopes)], n),
              LAMBDA r : IF r.st = "KeyError"
                         THEN FirstFound(r.h, n, scopes, i + 1)
                         ELSE r)

\* a lookup that asks every scope by get_object only
lookup_object_by_name_synthesizing(h, n, scopes) ==
    FirstFound(h, n, scopes, Len(scopes) + 1)

\* lookup_object_by_name
lookup_object_by_name(h, n, scopes) == FirstFound(h, n, scopes, 1)

\* An expression node: a Name, a Dict display with its key and value nodes,
\* or a node construction has no rule for (a Constant, a Subscript such as
\* Generic[T]).
NameExpr(id) == [node |-> "Name", id |-> id]
DictExpr(items) == [node |-> "Dict", id |-> "", items |-> items]
OtherExpr == [node |-> "Other", id |-> ""]

\* modules.BUILTINS_MODULE: the Module object of builtins
BUILTINS_MODULE(h) ==
    CHOOSE o \in DOMAIN h : h[o].cls = "Module" /\ h[o].module_path = "builtins"

\* construct_object_from_expression_node, the rule of ast.Dict
construct_object_from_Dict(h, module_path, local_path) ==
    Bind(GetNestedAttribute(h, BUILTINS_MODULE(h), <<"dict">>), LAMBDA cls :
         IF cls.st # "ok"
         THEN cls
         ELSE Outcome("ok", Len(cls.h) + 1,
                      Alloc(cls.h, NewRecord("PlainObject", "INSTANCE",
                                             module_path, local_path,
                                             <<cls.obj>>, 0, 0))))

\* construct_object_from_expression_node
construct_object_from_expression_node(h, expr, scopes, module_path, local_path) ==
    IF expr.node = "Name"
    THEN lookup_object_by_name(h, expr.id, scopes)
    ELSE IF expr.node = "Dict"
    THEN construct_object_from_Dict(h, module_path, local_path)
    ELSE Outcome("ok", Len(h) + 1,
                 Alloc(h, NewUnknownObject(module_path, local_path)))

\* ScopeParser.visit_Assign for `n = <constant>` in scope s: the target is
\* bound to the object constructed for the value node, then the value is set.
visit_Assign(h, s, n, v) ==
    Bind(construct_object_from_expression_node(
             h, OtherExpr, <<s>>, h[s].module_path,
             Append(h[s].local_path, n)), LAMBDA obj :
    Bind(SetAttribute(obj.h, s, n, obj.obj).h, LAMBDA bound :
         Scope_set_nested_value(bound, s, <<n>>, v)))

BASE_FIELD_NAMES == <<"__bases___0", "__bases___1">>

\* an abstract string value
Str == [tag |-> "str", v |-> 0]

RECURSIVE ConstructBases(_, _, _, _, _, _)
\* ScopeParser.visit_ClassDef, the loop over reversed(enumerate(node.bases)):
\* the objects of the bases, last declared first
ConstructBases(h, bases, i, scopes, class_path, acc) ==
    IF i = 0
    THEN [st |-> "ok", objs |-> acc, h |-> h]
    ELSE Bind(construct_object_from_expression_node(
                  h, bases[i], scopes, h[scopes[1]].module_path,
                  Append(class_path, BASE_FIELD_NAMES[i])), LAMBDA r :
              IF r.st # "ok"
              THEN [st |-> r.st, objs |-> <<>>, h |-> r.h]
              ELSE ConstructBases(r.h, bases, i - 1, scopes, class_path,
                                  Append(acc, r.obj)))

\* ScopeParser.visit_ClassDef, the kind of the class scope
ClassScopeKind(h, objs) ==
    IF \E i \in 1..Len(objs) : KindOf(h, objs[i]) = "METACLASS"
    THEN "METACLASS"
    ELSE IF \E i \in 1..Len(objs) :
                KindOf(h, objs[i]) \in {"UNKNOWN", "UNKNOWN_CLASS"}
         THEN "UNKNOWN_CLASS"
         ELSE "CLASS"

RECURSIVE VisitBody(_, _, _, _)
\* the walk of a class body made of assignments `n = 1`
VisitBody(h, s, body, i) ==
    IF i > Len(body)
    THEN Outcome("ok", 0, h)
    ELSE Bind(visit_Assign(h, s, body[i], Const(1)), LAMBDA r :
              IF r.st # "ok" THEN r ELSE VisitBody(r.h, s, body, i + 1))

\* ScopeParser.visit_ClassDef: class_object.set_attribute(field, PlainObject(
\* INSTANCE, ..., cls)) and, for a value, class_object.set_value(field, value)
SetField(h, c, field, cls, value) ==
    Bind(Alloc(h, NewRecord("PlainObject", "INSTANCE", h[c].module_path,
                            Append(h[c].local_path, field), <<cls>>, 0, 0)),
         LAMBDA h1 :
    Bind(SetAttribute(h1, c, field, Len(h1)).h, LAMBDA h2 :
         IF value = MISSING THEN Outcome("ok", 0, h2)
         ELSE Class_set_value(h2, c, field, value)))

\* ScopeParser.visit_ClassDef, after the walk of the body: the class object,
\* its dunder attributes, and its binding in scope s
DefineClass(h, s, builtins, name, bases, class_scope) ==
    Bind(Alloc(h, NewRecord("Class", "CLASS", h[s].module_path,
                            Append(h[s].local_path, name), bases,
                            class_scope, -1)), LAMBDA h2 :
    Bind(SetField(h2, Len(h2), "__dict__", h2[builtins].objects["dict"],
                  MISSING).h, LAMBDA f1 :
    Bind(SetField(f1, Len(h2), "__module__", h2[builtins].objects["str"],
                  Str).h, LAMBDA f2 :
    Bind(SetField(f2, Len(h2), "__name__", h2[builtins].objects["str"],
                  Str).h, LAMBDA f3 :
    Bind(SetField(f3, Len(h2), "__qualname__", h2[builtins].objects["str"],
                  Str).h, LAMBDA f4 :
    Bind(SetAttribute(f4, s, name, Len(h2)).h, LAMBDA bound :
    Bind(Plain_set_value(bound, s, name, View(class_scope)), LAMBDA valued :
         Outcome(valued.st, 0, valued.h))))))))

\* ScopeParser.visit_ClassDef for `class name(*bases): body` without
\* keywords or decorators, in scope s whose inherited scopes are scopes;
\* builtins is the scope of the builtins module.
visit_ClassDef(h, s, scopes, builtins, name, bases, body) ==
    Bind(ConstructBases(h, bases, Len(bases), scopes,
                        Append(h[s].local_path, name), <<>>), LAMBDA bs :
         IF bs.st # "ok"
         THEN Outcome(bs.st, 0, bs.h)
         ELSE
    Bind(Alloc(bs.h, NewScope(ClassScopeKind(bs.h, bs.objs), h[s].module_path,
                              Append(h[s].local_path, name))), LAMBDA h1 :
    Bind(VisitBody(h1, Len(h1), body, 1), LAMBDA walked :
         IF walked.st # "ok"
         THEN walked
         ELSE DefineClass(walked.h, s, builtins, name,
                          IF Len(bases) = 0
                          THEN <<h[builtins].objects["object"]>>
                          ELSE bs.objs,
                          Len(h1)))))

-----------------------------------------------------------------------------
(* Steps of the object-model specifications *)

Names == {"f", "g"}

Paths == UNION {[1..k -> Names] : k \in 1..MaxPath}

ConcreteValues == {Const(1)}

\* tick alternates, so that a repeated call is a step of its own.
NoCall == [op |-> "init", obj |-> 0, name |-> "", path |-> <<>>,
           target |-> 0, value |-> MISSING, tick |-> 0]

NoRes == [st |-> "ok", obj |-> 0, grew |-> FALSE]

\* One call of an operation on object o; outcome is what the call returns
\* and the heap it leaves.
Step(op, o, n, path, t, v, outcome) ==
    \E r \in {outcome} :
        /\ heap' = r.h
        /\ call' = [op |-> op, obj |-> o, name |-> n, path |-> path,
                    target |-> t, value |-> v, tick |-> 1 - call.tick]
        /\ res' = [st |-> r.st, obj |-> r.obj, grew |-> Len(r.h) > Len(heap)]
        /\ returned' = IF /\ op = "get_attribute" /\ r.st = "ok"
                          /\ heap[o].cls = "UnknownObject"
                       THEN returned \cup {<<o, n, r.obj>>}
                       ELSE returned

Do_get_attribute(o, n) ==
    Step("get_attribute", o, n, <<>>, 0, MISSING, GetAttribute(heap, o, n))

Do_get_object(s, n) ==
    Step("get_object", s, n, <<>>, 0, MISSING, Scope_get_object(heap, s, n))

Do_get_nested_attribute(o, path) ==
    Step("get_nested_attribute", o, "", path, 0, MISSING,
         GetNestedAttribute(heap, o, path))

Do_set_attribute(o, n, t) ==
    Step("set_attribute", o, n, <<>>, t, MISSING, SetAttribute(heap, o, n, t))

Do_set_value(o, n, v) ==
    Step("set_value", o, n, <<>>, 0, v, SetValue(heap, o, n, v))

Do_set_nested_value(o, path, v) ==
    Step("set_nested_value", o, "", path, 0, v,
         IF heap[o].cls = "Scope"
         THEN Scope_set_nested_value(heap, o, path, v)
         ELSE UnknownObject_set_nested_value(heap, o, path, v))

Do_safe_delete_value(o, n) ==
    Step("safe_delete_value", o, n, <<>>, 0, MISSING, SafeDeleteValue(heap, o, n))

Do_delete_object(s, n) ==
    Step("delete_object", s, n, <<>>, 0, MISSING, Scope_delete_object(heap, s, n))

Do_mark_module_as_dynamic(s) ==
    Step("mark_module_as_dynamic", s, "", <<>>, 0, MISSING,
         Scope_mark_module_as_dynamic(heap, s))

IdleLoader ==
    /\ cache = EmptyMap
    /\ MODULES = EmptyMap
    /\ files = EmptyMap
    /\ stack = <<>>
    /\ exc = ""
    /\ log = <<>>

-----------------------------------------------------------------------------
(* SpecUnknown: attribute access on UnknownObject *)

Unknowns == {o \in DOMAIN heap : heap[o].cls = "UnknownObject"}

InitUnknown ==
    /\ heap = <<NewUnknownObject("m", <<"u">>)>>
    /\ call = NoCall
    /\ res = NoRes
    /\ returned = {}
    /\ IdleLoader

NextUnknown ==
    /\ UNCHANGED loadVars
    /\ \E o \in Unknowns :
        \/ \E n \in Names : Do_get_attribute(o, n)
        \/ \E path \in Paths : Do_get_nested_attribute(o, path)
    /\ Len(heap') <= 1 + MaxNew

SpecUnknown == InitUnknown /\ [][NextUnknown]_vars

\* C1: get_attribute and chained get_attribute on an UnknownObject never fail
\* and return an UnknownObject, and every two get_attribute calls on the same
\* UnknownObject with the same name return the identical child.
C1_UnknownAbsorbs ==
    /\ (call.op \in {"get_attribute", "get_nested_attribute"})
          => (res.st = "ok" /\ heap[res.obj].cls = "UnknownObject")
    /\ \A t1, t2 \in returned :
          (t1[1] = t2[1] /\ t1[2] = t2[2]) => t1[3] = t2[3]

\* a get_attribute on a grandchild that was answered from the table (no new
\* object), after the same call had created it
C1_Witness ==
    /\ call.op = "get_attribute"
    /\ ~res.grew
    /\ <<call.obj, call.name, res.obj>> \in returned
    /\ Len(heap[res.obj].local_path) >= 3

-----------------------------------------------------------------------------
(* SpecScope: a scope of any kind, two modules it can star-import *)

NewModule(module_path, scope) ==
    NewRecord("Module", "MODULE", module_path, <<>>, <<>>, scope, 0)

\* the scope under test, module pkg and module q with their scopes, and one
\* object to bind in each module
ScopeFixture(kind) ==
    <<NewScope(kind, "m", <<>>),
      NewScope("STATIC_MODULE", "pkg", <<>>), NewModule("pkg", 2),
      NewScope("STATIC_MODULE", "q", <<>>), NewModule("q", 4),
      NewUnknownObject("pkg", <<"x">>), NewUnknownObject("q", <<"y">>)>>

Fx == [scope |-> 1, pkgScope |-> 2, pkg |-> 3, qScope |-> 4, q |-> 5,
       x |-> 6, y |-> 7]

InitScope ==
    /\ \E kind \in ScopeKind : heap = ScopeFixture(kind)
    /\ call = NoCall
    /\ res = NoRes
    /\ returned = {}
    /\ IdleLoader

Bounded(size) == Len(heap') <= size + MaxNew /\ UNCHANGED loadVars

ScopeGetObject ==
    \E n \in Names : Do_get_object(Fx.scope, n) /\ Bounded(7)

StarImport ==
    \E m \in {Fx.pkg, Fx.q} :
        /\ Step("star_import", Fx.scope, "", <<>>, m, MISSING,
                visit_ImportFrom_star(heap, Fx.scope, m))
        /\ Bounded(7)

\* a statement of pkg or of q binds the name f there
ModuleSetAttribute ==
    \/ Do_set_attribute(Fx.pkg, "f", Fx.x) /\ Bounded(7)
    \/ Do_set_attribute(Fx.q, "f", Fx.y) /\ Bounded(7)

MarkModuleAsDynamic ==
    \E s \in {Fx.scope, Fx.pkgScope, Fx.qScope} :
        Do_mark_module_as_dynamic(s) /\ Bounded(7)

VisitCall ==
    \E s \in {Fx.scope, Fx.pkgScope, Fx.qScope} :
        /\ Step("visit_Call", s, "", <<>>, 0, MISSING,
                visit_Call_dict_update(heap, s))
        /\ Bounded(7)

NextScope ==
    \/ ScopeGetObject
    \/ StarImport
    \/ ModuleSetAttribute
    \/ MarkModuleAsDynamic
    \/ VisitCall

SpecScope == InitScope /\ [][NextScope]_vars

\* C2: the kind of a scope changes only from STATIC_MODULE to DYNAMIC_MODULE,
\* and mark_module_as_dynamic on a scope of any other kind (a second call
\* included) raises AssertionError and leaves everything as it was.
C2_KindMonotonic ==
    [][/\ \A s \in DOMAIN heap :
              \/ heap'[s].kind = heap[s].kind
              \/ /\ heap[s].cls = "Scope"
                 /\ heap[s].kind = "STATIC_MODULE"
                 /\ heap'[s].kind = "DYNAMIC_MODULE"
       /\ (/\ call'.op = "mark_module_as_dynamic"
           /\ heap[call'.obj].kind # "STATIC_MODULE")
              => (res'.st = "AssertionError" /\ heap' = heap)]_vars

\* a second mark_module_as_dynamic on a module scope, refused
C2_Witness ==
    /\ call.op = "mark_module_as_dynamic"
    /\ res.st = "AssertionError"
    /\ heap[call.obj].kind = "DYNAMIC_MODULE"

\* n is in neither the own table of s nor any included object of s
TotalMiss(h, s, n) ==
    /\ n \notin DOMAIN h[s].objects
    /\ \A i \in 1..Len(h[s].included) :
          GetAttribute(h, h[s].included[i], n).st = "KeyError"

\* C7: on a total miss Scope.get_object binds and returns a fresh
\* UnknownObject when the kind is BUILTIN_MODULE, DYNAMIC_MODULE,
\* EXTENSION_MODULE or UNKNOWN_CLASS, and raises KeyError without binding
\* anything for every other kind; a call on a name of the own table returns
\* the object bound there.
C7_TotalMissSynthesis ==
    [][call'.op = "get_object" =>
        LET s == call'.obj
            n == call'.name
        IN  /\ (TotalMiss(heap, s, n) /\ heap[s].kind \in SYNTHESIZING_SCOPE_KINDS)
                  => /\ res'.st = "ok"
                     /\ res'.obj \notin DOMAIN heap
                     /\ heap'[res'.obj].cls = "UnknownObject"
                     /\ heap'[s].objects = MapSet(heap[s].objects, n, res'.obj)
            /\ (TotalMiss(heap, s, n) /\ heap[s].kind \notin SYNTHESIZING_SCOPE_KINDS)
                  => /\ res'.st = "KeyError"
                     /\ heap' = heap
            /\ n \in DOMAIN heap[s].objects
                  => /\ res'.st = "ok"
                     /\ res'.obj = heap[s].objects[n]
                     /\ heap' = heap]_vars

\* a repeated get_object on a dynamic module with a star-import that misses:
\* the object synthesized by the first call is returned again
C7_Witness ==
    /\ call.op = "get_object"
    /\ res.st = "ok" /\ ~res.grew
    /\ heap[call.obj].kind = "DYNAMIC_MODULE"
    /\ Len(heap[call.obj].included) > 0
    /\ heap[res.obj].cls = "UnknownObject"
    /\ heap[res.obj].module_path = heap[call.obj].module_path
    /\ heap[res.obj].local_path = <<call.name>>

\* C10: once pkg is star-imported, get_object(n) on the importing scope,
\* for n bound in pkg and not in the own table, returns the object bound in
\* pkg and adds nothing to the own table.
C10_StarImportLookup ==
    [][(/\ call'.op = "get_object"
        /\ call'.obj = Fx.scope
        /\ \E i \in 1..Len(heap[Fx.scope].included) :
              heap[Fx.scope].included[i] = Fx.pkg
        /\ call'.name \in DOMAIN heap[Fx.pkgScope].objects
        /\ call'.name \notin DOMAIN heap[Fx.scope].objects)
          => /\ res'.st = "ok"
             /\ res'.obj = heap[Fx.pkgScope].objects[call'.name]
             /\ call'.name \notin DOMAIN heap'[Fx.scope].objects]_vars

-----------------------------------------------------------------------------
(* SpecValues: the binding table and the value table of a scope and of the
   objects bound in it *)

\* a module scope and an unknown object to bind in it
InitValues ==
    /\ heap = <<NewScope("STATIC_MODULE", "m", <<>>),
                NewUnknownObject("m", <<"u">>)>>
    /\ call = NoCall
    /\ res = NoRes
    /\ returned = {}
    /\ IdleLoader

ValuesSetObject ==
    \E n \in Names : Do_set_attribute(1, n, 2) /\ Bounded(2)

ValuesSetValue ==
    \E o \in {1, 2}, n \in Names, v \in ConcreteValues \cup {MISSING} :
        Do_set_value(o, n, v) /\ Bounded(2)

ValuesSetNestedValue ==
    \E o \in {1, 2}, path \in Paths, v \in ConcreteValues :
        Do_set_nested_value(o, path, v) /\ Bounded(2)

ValuesDeleteObject ==
    \E n \in Names : Do_delete_object(1, n) /\ Bounded(2)

ValuesSafeDeleteValue ==
    \E o \in {1, 2}, n \in Names : Do_safe_delete_value(o, n) /\ Bounded(2)

NextValues ==
    \/ ValuesSetObject
    \/ ValuesSetValue
    \/ ValuesSetNestedValue
    \/ ValuesDeleteObject
    \/ ValuesSafeDeleteValue

SpecValues == InitValues /\ [][NextValues]_vars

\* C6: after every operation each name of a value table is a name of the
\* binding table of the same scope or object, and set_value on a name with no
\* binding raises AssertionError and changes nothing.
C6_ValuesAreBound ==
    [][/\ \A o \in DOMAIN heap' :
              DOMAIN heap'[o].values \subseteq DOMAIN heap'[o].objects
       /\ (/\ call'.op = "set_value"
           /\ call'.name \notin DOMAIN Objects(heap, call'.obj))
              => (res'.st = "AssertionError" /\ heap' = heap)]_vars

-----------------------------------------------------------------------------
(* SpecClass: class definitions of a module and attribute lookup on them *)

MaxClasses == 2     \* class definitions walked in a run

NewClass(module_path, local_path, bases, scope, metaclass) ==
    NewRecord("Class", "CLASS", module_path, local_path, bases, scope, metaclass)

\* the scope of module m, the builtins scope, and the builtin classes object,
\* type, dict and str as parse_modules(builtins) builds them: object has
\* metaclass type, type has base object and no metaclass
ClassFixture ==
    <<NewScope("STATIC_MODULE", "m", <<>>),
      [NewScope("STATIC_MODULE", "builtins", <<>>) EXCEPT !.objects =
          [x \in {"object", "type", "dict", "str"} |->
              CASE x = "object" -> 4 [] x = "type" -> 6
                [] x = "dict" -> 8 [] x = "str" -> 10]],
      NewScope("CLASS", "builtins", <<"object">>),
      NewClass("builtins", <<"object">>, <<>>, 3, 6),
      NewScope("METACLASS", "builtins", <<"type">>),
      NewClass("builtins", <<"type">>, <<4>>, 5, -1),
      NewScope("CLASS", "builtins", <<"dict">>),
      NewClass("builtins", <<"dict">>, <<4>>, 7, 6),
      NewScope("CLASS", "builtins", <<"str">>),
      NewClass("builtins", <<"str">>, <<4>>, 9, 6)>>

InitClass ==
    /\ heap = ClassFixture
    /\ call = NoCall
    /\ res = NoRes
    /\ returned = {}
    /\ IdleLoader

ClassNames == {"A", "B"}

BaseLists ==
    {<<>>, <<OtherExpr>>} \cup {<<NameExpr(id)>> : id \in ClassNames}

\* the classes walked so far
Classes == {c \in DOMAIN heap : heap[c].cls = "Class" /\ heap[c].module_path = "m"}

VisitClassDef ==
    \E name \in ClassNames, bases \in BaseLists, body \in {<<>>, <<"f">>} :
        /\ Cardinality(Classes) < MaxClasses
        /\ Step("visit_ClassDef", 1, name,
                [i \in 1..Len(bases) |-> bases[i].id], Len(body), MISSING,
                visit_ClassDef(heap, 1, <<1, 2>>, 2, name, bases, body))
        /\ UNCHANGED loadVars

RECURSIVE Finds(_, _, _)
\* get_attribute(n) on o is answered before the lookup reaches the builtin
\* class object, whose metaclass type has object as its base again
Finds(h, o, n) ==
    \/ h[o].cls # "Class"
    \/ n \in DOMAIN h[o].objects
    \/ n \in DOMAIN h[h[o].scope].objects
    \/ h[h[o].scope].kind = "UNKNOWN_CLASS"
    \/ /\ Len(h[o].included) > 0
       /\ h[o].included[1] \in Classes
       /\ Finds(h, h[o].included[1], n)

ClassGetAttribute ==
    \E c \in Classes, n \in Names :
        /\ Finds(heap, c, n)
        /\ Do_get_attribute(c, n)
        /\ UNCHANGED loadVars

NextClass == VisitClassDef \/ ClassGetAttribute

SpecClass == InitClass /\ [][NextClass]_vars

\* C8: for a class B whose only base is a class A, A's body binding f and
\* B's body not, get_attribute(f) on B returns the very object that
\* get_attribute(f) on A returns.
C8_BaseFallbackIdentity ==
    [][(/\ call'.op = "get_attribute"
        /\ call'.obj \in Classes
        /\ Len(heap[call'.obj].included) = 1
        /\ heap[call'.obj].included[1] \in Classes
        /\ call'.name \in DOMAIN heap[heap[heap[call'.obj].included[1]].scope].objects
        /\ call'.name \notin DOMAIN heap[heap[call'.obj].scope].objects)
          => LET a == GetAttribute(heap, heap[call'.obj].included[1], call'.name)
             IN  a.st = "ok" /\ res'.st = "ok" /\ res'.obj = a.obj]_vars

-----------------------------------------------------------------------------
(* scope_parser.py: the module loader and the walk of a module body *)

MaxStatements == 2   \* statements of the two source files together
MaxLoads == 2        \* calls of the loader made from outside a walk
MaxDepth == 3        \* modules being walked at once

\* module_file_paths: a and b are source files, e has no file (None), x is an
\* extension file; any other path is absent from the mapping
SourcePaths == {"a", "b"}

FILE_KIND ==
    [p \in {"a", "b", "e", "x"} |->
        CASE p \in SourcePaths -> "source" [] p = "e" -> "None"
          [] p = "x" -> "extension"]

LoadPaths == {"a", "b", "e", "x", "n"}

\* Statements of a module body: `import p`; `x = 1`; `sys.modules[__name__] =
\* <expression>`; `if True/False/<unbound name>: t = 1` `else: u = 1`.
Stmt(kind, arg) == [kind |-> kind, arg |-> arg]

Statements ==
    {Stmt("Import", p) : p \in {"a", "b", "n"}}
        \cup {Stmt("Assign", "x"), Stmt("AssignModule", "")}
        \cup {Stmt("If", t) : t \in {"True", "False", "Name"}}

IfBody == <<Stmt("Assign", "t")>>
IfOrelse == <<Stmt("Assign", "u")>>

Bodies == UNION {[1..k -> Statements] : k \in 0..MaxStatements}

\* builtins and types as parse_modules(builtins, sys, types) registers them,
\* with the classes the loader refers to
LoadFixture ==
    <<[NewScope("STATIC_MODULE", "builtins", <<>>) EXCEPT !.objects =
          [x \in {"dict"} |-> 4]],
      NewModule("builtins", 1),
      NewScope("CLASS", "builtins", <<"dict">>),
      NewClass("builtins", <<"dict">>, <<>>, 3, 0),
      [NewScope("STATIC_MODULE", "types", <<>>) EXCEPT !.objects =
          [x \in {"ModuleType"} |-> 8]],
      NewModule("types", 5),
      NewScope("CLASS", "types", <<"ModuleType">>),
      NewClass("types", <<"ModuleType">>, <<>>, 7, 0)>>

Lx == [BUILTINS_MODULE |-> 2, TYPES_MODULE |-> 6]

Loaded(how, obj, h, M) == [how |-> how, obj |-> obj, h |-> h, M |-> M]

\* _load_module_path_namespace, a miss on a path without a source file: a
\* Module of the given scope kind that is not registered
Placeholder(h, M, kind, p) ==
    Loaded("stub", Len(h) + 2,
           Alloc(Alloc(h, NewScope(kind, p, <<>>)), NewModule(p, Len(h) + 1)),
           M)

\* The variant of Register that walks the body without registering the module
Register_unregistered(h, M, p) ==
    Bind(Alloc(Alloc(h, NewScope("STATIC_MODULE", p, <<>>)),
               NewModule(p, Len(h) + 1)), LAMBDA h1 :
    Bind(Alloc(h1, NewRecord("PlainObject", "INSTANCE", p, <<"__dict__">>,
                             <<h[h[Lx.BUILTINS_MODULE].scope].objects["dict"]>>,
                             0, 0)), LAMBDA h2 :
    Bind(SetAttribute(h2, Len(h1), "__dict__", Len(h2)).h, LAMBDA h3 :
    Bind(SetAttribute(h3, Len(h1), "__class__",
                      h[h[Lx.TYPES_MODULE].scope].objects["ModuleType"]).h,
         LAMBDA h4 :
         Loaded("walk", Len(h1), h4, M)))))

\* _load_module_path_namespace, a miss on a source file, up to the walk:
\* parse_modules registers a Module for the path, then __dict__ and
\* __class__ are set on it
Register(h, M, p) ==
    Bind(Alloc(Alloc(h, NewScope("STATIC_MODULE", p, <<>>)),
               NewModule(p, Len(h) + 1)), LAMBDA h1 :
    Bind(Alloc(h1, NewRecord("PlainObject", "INSTANCE", p, <<"__dict__">>,
                             <<h[h[Lx.BUILTINS_MODULE].scope].objects["dict"]>>,
                             0, 0)), LAMBDA h2 :
    Bind(SetAttribute(h2, Len(h1), "__dict__", Len(h2)).h, LAMBDA h3 :
    Bind(SetAttribute(h3, Len(h1), "__class__",
                      h[h[Lx.TYPES_MODULE].scope].objects["ModuleType"]).h,
         LAMBDA h4 :
         Loaded("walk", Len(h1), h4, MapSet(M, p, Len(h1)))))))

\* The variant of _load_module_path_namespace that parses a source file
\* again although the registry holds its module
load_module_path_namespace_reparsing(h, M, p) ==
    IF p \in DOMAIN M /\ (p \notin DOMAIN FILE_KIND \/ FILE_KIND[p] # "source")
    THEN Loaded("hit", M[p], h, M)
    ELSE IF p \notin DOMAIN FILE_KIND
         THEN Loaded("raise", 0, h, M)
         ELSE IF FILE_KIND[p] = "None"
              THEN Placeholder(h, M, "BUILTIN_MODULE", p)
              ELSE IF FILE_KIND[p] = "extension"
                   THEN Placeholder(h, M, "EXTENSION_MODULE", p)
                   ELSE Register(h, M, p)

\* _load_module_path_namespace up to the walk of the body: a registry hit, a
\* ModuleNotFoundError, a placeholder, or a registered module to walk
load_module_path_namespace(h, M, p) ==
    IF p \in DOMAIN M
    THEN Loaded("hit", M[p], h, M)
    ELSE IF p \notin DOMAIN FILE_KIND
         THEN Loaded("raise", 0, h, M)
         ELSE IF FILE_KIND[p] = "None"
              THEN Placeholder(h, M, "BUILTIN_MODULE", p)
              ELSE IF FILE_KIND[p] = "extension"
                   THEN Placeholder(h, M, "EXTENSION_MODULE", p)
                   ELSE Register(h, M, p)

\* The variant of the handler of a failed walk that keeps the registry entry
Discard_kept(M, e, p) == [M |-> M, exc |-> e]

\* _load_module_path_namespace, `except Exception: del MODULES[module_path];
\* raise`
Discard(M, e, p) ==
    IF p \in DOMAIN M
    THEN [M |-> MapDel(M, p), exc |-> e]
    ELSE [M |-> M, exc |-> "KeyError"]

\* The variant of visit_If that visits both branches whatever the test
visit_If_both(test) == IfBody \o IfOrelse

\* ScopeParser.visit_If: the statements visited for a test that evaluates to
\* a truthy constant, to a falsy constant, or fails with a NameError
visit_If(test) ==
    CASE test = "True" -> IfBody
      [] test = "False" -> IfOrelse
      [] test = "Name" -> IfBody \o IfOrelse

\* ScopeParser.visit_Import for `import p`, once the module is resolved:
\* set_object(p, module) and set_value(p, module.as_object())
BindModule(h, s, n, obj) ==
    Plain_set_value(SetAttribute(h, s, n, obj).h, s, n,
                    View(Holder(h, obj))).h

-----------------------------------------------------------------------------
(* SpecLoad: loads of the modules a, b, e, x, n and the walks they start *)

\* A module being walked: its path, its Module object, the statements still
\* to visit, and the length of the log when its load was called.
Frame(p, module, body, since) ==
    [path |-> p, module |-> module, body |-> body, since |-> since]

\* An entry of the log. how is "hit", "stub", "raise" or "walk" for a call of
\* the loader that returned obj or raised st to a caller depth frames deep,
\* "enter" for the start of a walk, "assign" for a reassignment of a registry
\* entry.
Ev(p, how, st, obj, depth, since) ==
    [path |-> p, how |-> how, st |-> st, obj |-> obj, depth |-> depth,
     since |-> since]

InitLoad ==
    /\ cache = EmptyMap
    /\ heap = LoadFixture
    /\ MODULES = [p \in {"builtins", "types"} |->
                     IF p = "builtins" THEN Lx.BUILTINS_MODULE
                     ELSE Lx.TYPES_MODULE]
    /\ files \in {f \in [SourcePaths -> Bodies] :
                     Len(f["a"]) + Len(f["b"]) <= MaxStatements}
    /\ stack = <<>>
    /\ exc = ""
    /\ log = <<>>
    /\ call = NoCall
    /\ res = NoRes
    /\ returned = {}

Top == stack[Len(stack)]

CallReturns == {"hit", "stub", "raise", "walk"}

Walking(kind) ==
    /\ stack # <<>>
    /\ exc = ""
    /\ Top.body # <<>>
    /\ Head(Top.body).kind = kind

Called(op, p) ==
    /\ call' = [NoCall EXCEPT !.op = op, !.name = p, !.tick = 1 - call.tick]
    /\ UNCHANGED <<res, returned, files, cache>>

\* the walk goes on to the next statement, visited being put in place of
\* the statement at the head
Advance(visited) ==
    stack' = [stack EXCEPT ![Len(stack)].body = visited \o Tail(@)]

\* A call of the loader from outside any walk.
ClientLoad ==
    \E p \in LoadPaths :
    \E r \in {load_module_path_namespace(heap, MODULES, p)} :
        /\ stack = <<>>
        /\ Cardinality({i \in DOMAIN log : log[i].depth = 0
                                            /\ log[i].how \in CallReturns})
               < MaxLoads
        /\ heap' = r.h
        /\ MODULES' = r.M
        /\ exc' = ""
        /\ IF r.how = "walk"
           THEN /\ stack' = <<Frame(p, r.obj, files[p], Len(log))>>
                /\ log' = Append(log, Ev(p, "enter", "ok", r.obj, 0, Len(log)))
           ELSE /\ stack' = stack
                /\ log' = Append(log,
                        Ev(p, r.how,
                           IF r.how = "raise" THEN "ModuleNotFoundError"
                           ELSE "ok", r.obj, 0, Len(log)))
        /\ Called("load", p)

\* ScopeParser.visit_Import for `import p`.
VisitImport ==
    /\ Walking("Import")
    /\ \E r \in {load_module_path_namespace(heap, MODULES, Head(Top.body).arg)} :
       LET p == Head(Top.body).arg IN
        /\ r.how = "walk" => Len(stack) < MaxDepth
        /\ MODULES' = r.M
        /\ CASE r.how = "walk" ->
                  /\ heap' = r.h
                  /\ stack' = Append(stack, Frame(p, r.obj, files[p], Len(log)))
                  /\ log' = Append(log, Ev(p, "enter", "ok", r.obj, Len(stack),
                                           Len(log)))
                  /\ UNCHANGED exc
             [] r.how = "raise" ->
                  /\ exc' = "ModuleNotFoundError"
                  /\ log' = Append(log, Ev(p, "raise", "ModuleNotFoundError",
                                           0, Len(stack), Len(log)))
                  /\ UNCHANGED <<heap, stack>>
             [] OTHER ->
                  /\ heap' = BindModule(r.h, heap[Top.module].scope, p, r.obj)
                  /\ Advance(<<>>)
                  /\ log' = Append(log, Ev(p, r.how, "ok", r.obj, Len(stack),
                                           Len(log)))
                  /\ UNCHANGED exc
        /\ Called("visit_Import", p)

\* ScopeParser.visit_Assign for `x = 1`.
VisitAssign ==
    /\ Walking("Assign")
    /\ heap' = visit_Assign(heap, heap[Top.module].scope, Head(Top.body).arg,
                            Const(1)).h
    /\ Advance(<<>>)
    /\ Called("visit_Assign", Head(Top.body).arg)
    /\ UNCHANGED <<MODULES, exc, log>>

\* ScopeParser.visit_Assign for `sys.modules[__name__] = <expression>`:
\* _set_target_object_split_path stores the constructed object in MODULES.
VisitAssignModule ==
    /\ Walking("AssignModule")
    /\ heap' = Alloc(heap, NewUnknownObject(Top.path, <<>>))
    /\ MODULES' = MapSet(MODULES, Top.path, Len(heap) + 1)
    /\ log' = Append(log, Ev(Top.path, "assign", "ok", Len(heap) + 1,
                             Len(stack), Len(log)))
    /\ Advance(<<>>)
    /\ Called("visit_Assign", Top.path)
    /\ UNCHANGED exc

\* ScopeParser.visit_If.
VisitIf ==
    /\ Walking("If")
    /\ Advance(visit_If(Head(Top.body).arg))
    /\ Called("visit_If", Head(Top.body).arg)
    /\ UNCHANGED <<heap, MODULES, exc, log>>

\* _load_module_path_namespace, the walk is over: `return result`; a caller
\* that is a walk binds the module (visit_Import) and goes on.
Return ==
    /\ stack # <<>>
    /\ exc = ""
    /\ Top.body = <<>>
    /\ log' = Append(log, Ev(Top.path, "walk", "ok", Top.module,
                             Len(stack) - 1, Top.since))
    /\ IF Len(stack) = 1
       THEN /\ stack' = <<>>
            /\ heap' = heap
       ELSE /\ heap' = BindModule(heap, heap[stack[Len(stack) - 1].module].scope,
                                  Top.path, Top.module)
            /\ stack' = [SubSeq(stack, 1, Len(stack) - 1)
                            EXCEPT ![Len(stack) - 1].body = Tail(@)]
    /\ Called("return", Top.path)
    /\ UNCHANGED <<MODULES, exc>>

\* _load_module_path_namespace, the walk raised: the entry is deleted and the
\* exception raised again, into the caller's walk when there is one.
Unwind ==
    /\ stack # <<>>
    /\ exc # ""
    /\ \E d \in {Discard(MODULES, exc, Top.path)} :
        /\ MODULES' = d.M
        /\ exc' = IF Len(stack) = 1 THEN "" ELSE d.exc
        /\ log' = Append(log, Ev(Top.path, "walk", d.exc, Top.module,
                                 Len(stack) - 1, Top.since))
    /\ stack' = SubSeq(stack, 1, Len(stack) - 1)
    /\ Called("raise", Top.path)
    /\ UNCHANGED heap

LoaderStep ==
    VisitImport \/ VisitAssign \/ VisitAssignModule \/ VisitIf \/ Return
        \/ Unwind

NextLoad ==
    \/ ClientLoad
    \/ VisitImport
    \/ VisitAssign
    \/ VisitAssignModule
    \/ VisitIf
    \/ Return
    \/ Unwind

SpecLoad == InitLoad /\ [][NextLoad]_vars

\* A walk in progress always goes on: the loader runs to completion.
SpecLoadFair == SpecLoad /\ WF_vars(LoaderStep)

-----------------------------------------------------------------------------
(* Claims on the module loader *)

Min(x, y) == IF x < y THEN x ELSE y

Range(q) == {q[i] : i \in DOMAIN q}

\* the entries logged after the earlier of the calls i and j began and
\* before call j returned
Window(i, j) ==
    {k \in DOMAIN log : Min(log[i].since, log[j].since) < k /\ k < j}

\* entries i < j are two successful calls of the loader with one path of the
\* module-file-path mapping, no load having failed in between
TwoLoads(i, j) ==
    /\ i < j
    /\ log[i].how \in CallReturns /\ log[j].how \in CallReturns
    /\ log[i].path = log[j].path
    /\ log[i].path \in DOMAIN FILE_KIND
    /\ log[i].st = "ok" /\ log[j].st = "ok"
    /\ \A k \in Window(i, j) : log[k].st = "ok"

\* C3 as stated: two calls of the loader with the same path of the
\* module-file-path mapping, no load having failed in between, return the
\* same object.
C3_LoaderIdempotent ==
    \A i, j \in DOMAIN log : TwoLoads(i, j) => log[i].obj = log[j].obj

\* C3, amended: two calls of the loader with the path of a source file, with
\* no failed load and no assignment to the registry entry of that path in
\* between, return the same object; a path without a source file gets a new
\* unregistered placeholder at each call.
C3_SourceLoaderIdempotent ==
    \A i, j \in DOMAIN log :
        (/\ TwoLoads(i, j)
         /\ FILE_KIND[log[i].path] = "source"
         /\ \A k \in Window(i, j) :
                ~(log[k].how = "assign" /\ log[k].path = log[i].path))
            => log[i].obj = log[j].obj

C3_Witness ==
    \E i, j \in DOMAIN log :
        /\ TwoLoads(i, j)
        /\ FILE_KIND[log[i].path] = "source"
        /\ log[i].how = "walk" /\ log[i].depth = 0
        /\ log[j].how = "hit" /\ log[j].depth = 0
        /\ log[i].obj = log[j].obj
        /\ \A k \in DOMAIN log : log[k].how # "assign"

\* a imports b and b imports a
Cycle ==
    /\ Stmt("Import", "b") \in Range(files["a"])
    /\ Stmt("Import", "a") \in Range(files["b"])

\* no statement of a or b raises or reassigns a registry entry
Healthy ==
    \A p \in SourcePaths :
        Range(files[p]) \cap {Stmt("Import", "n"), Stmt("AssignModule", "")} = {}

\* the scope of the module registered for p binds n to the module
\* registered for n
BindsModule(p, n) ==
    /\ {p, n} \subseteq DOMAIN MODULES
    /\ heap[MODULES[n]].cls = "Module"
    /\ n \in DOMAIN Objects(heap, MODULES[p])
    /\ Objects(heap, MODULES[p])[n] = MODULES[n]

CycleLoaded ==
    /\ stack = <<>>
    /\ exc = ""
    /\ \A i \in DOMAIN log : log[i].path \in SourcePaths => log[i].st = "ok"
    /\ \A p \in SourcePaths :
           \E i \in DOMAIN log : log[i].path = p /\ log[i].how = "walk"
    /\ BindsModule("a", "b")
    /\ BindsModule("b", "a")

\* C4: when a and b import each other (and no statement of theirs raises), a
\* load that starts a walk comes to its end, no module is walked twice at
\* once, both loads succeed, and the scope of each binds the Module of the
\* other.
C4_CycleSafety ==
    /\ [](Cycle /\ Healthy =>
            \A i, j \in DOMAIN stack : i # j => stack[i].path # stack[j].path)
    /\ (Cycle /\ Healthy /\ stack # <<>>) ~> CycleLoaded

C4_Witness ==
    /\ Cycle
    /\ Healthy
    /\ CycleLoaded
    /\ \E i \in DOMAIN log : log[i].how = "hit" /\ log[i].depth = 2

\* the walk logged at i raised
FailedWalk(l, i) == l[i].how = "walk" /\ l[i].st # "ok"

\* C5: when the walk of a source module raises, the loader hands control
\* back with the registry entry of the path removed and the same exception
\* raised; the next call of the loader with that path is a miss that walks
\* the file again into a new Module, and no later call returns the
\* partially-built one.
C5_FailedWalkDiscarded ==
    [][/\ (stack # <<>> /\ exc # "") =>
            /\ Top.path \notin DOMAIN MODULES'
            /\ log' = Append(log, Ev(Top.path, "walk", exc, Top.module,
                                     Len(stack) - 1, Top.since))
            /\ Len(stack) > 1 => exc' = exc
       /\ \A i, j \in DOMAIN log' :
            (/\ i < j
             /\ FailedWalk(log', i)
             /\ log'[j].path = log'[i].path
             /\ log'[j].how \in CallReturns \cup {"enter"})
                => /\ log'[j].obj # log'[i].obj
                   /\ (\A k \in (i + 1)..(j - 1) : log'[k].path # log'[i].path)
                          => log'[j].how = "enter"]_vars

C5_Witness ==
    \E i, j \in DOMAIN log :
        /\ i < j
        /\ FailedWalk(log, i)
        /\ "x" \in DOMAIN Objects(heap, log[i].obj)
        /\ log[i].path \notin DOMAIN MODULES
        /\ log[j].path = log[i].path
        /\ log[j].how = "enter"
        /\ log[j].obj # log[i].obj

\* the top-level scopes of the source modules
ModuleScopes ==
    {o \in DOMAIN heap : /\ heap[o].cls = "Scope"
                         /\ heap[o].module_path \in SourcePaths
                         /\ heap[o].local_path = <<>>}

\* the tests of the if statements of the file of scope o
Tests(o) ==
    {st.arg : st \in {x \in Range(files[heap[o].module_path]) : x.kind = "If"}}

\* C9: a name assigned only in a branch of an if statement is bound in the
\* module scope only when that branch was the one to visit: t, assigned in
\* the body, needs a test that is truthy (or fails to evaluate); u, assigned
\* in the orelse, needs a test that is falsy (or fails to evaluate).
C9_BranchExclusive ==
    \A o \in ModuleScopes :
        /\ "t" \in DOMAIN heap[o].objects => Tests(o) \cap {"True", "Name"} # {}
        /\ "u" \in DOMAIN heap[o].objects => Tests(o) \cap {"False", "Name"} # {}

C9_Witness ==
    \E i \in DOMAIN log :
        /\ log[i].how = "walk" /\ log[i].st = "ok"
        /\ Tests(heap[log[i].obj].scope) = {"False"}
        /\ "u" \in DOMAIN Objects(heap, log[i].obj)
        /\ "t" \notin DOMAIN Objects(heap, log[i].obj)

-----------------------------------------------------------------------------
(* lookup.py, scope_parser.py: imports, function definitions *)

AttributeExpr(id, attr) == [node |-> "Attribute", id |-> id, attr |-> attr]

\* lookup_object_by_expression_node for a Name, an Attribute of a Name and a
\* node lookup has no rule for; obj = 0 stands for None
lookup_object_by_expression_node(h, expr, scopes) ==
    CASE expr.node = "Name" -> lookup_object_by_name(h, expr.id, scopes)
      [] expr.node = "Attribute" ->
            Bind(lookup_object_by_name(h, expr.id, scopes), LAMBDA v :
                 IF v.st # "ok"
                 THEN v
                 ELSE Bind(GetAttribute(v.h, v.obj, expr.attr), LAMBDA r :
                           IF r.st = "KeyError"
                           THEN Outcome("AttributeError", 0, r.h)
                           ELSE r))
      [] OTHER -> Outcome("ok", 0, h)

\* PlainObject.__init__: `assert kind in PLAIN_OBJECT_KINDS`, then the fields
PlainObject_init(h, kind, module_path, local_path, included) ==
    IF kind \notin PLAIN_OBJECT_KINDS
    THEN Outcome("AssertionError", 0, h)
    ELSE Outcome("ok", Len(h) + 1,
                 Alloc(h, NewRecord("PlainObject", kind, module_path,
                                    local_path, included, 0, 0)))

\* a _process_assignment that constructs the object at the path of the scope
process_assignment_unnamed(h, s, scopes, n, expr, v) ==
    Bind(construct_object_from_expression_node(
             h, expr, scopes, h[s].module_path, h[s].local_path), LAMBDA obj :
         IF obj.st # "ok"
         THEN obj
         ELSE
    Bind(SetAttribute(obj.h, s, n, obj.obj).h, LAMBDA bound :
         IF v = MISSING
         THEN SafeDeleteValue(bound, s, n)
         ELSE Scope_set_nested_value(bound, s, <<n>>, v)))

\* ScopeParser._process_assignment for the target `n` of scope s and a value
\* node expr whose evaluation gave v (MISSING when it raised an evaluation
\* exception): the target is bound to the object constructed for expr, then
\* the value is set or deleted.
process_assignment(h, s, scopes, n, expr, v) ==
    Bind(construct_object_from_expression_node(
             h, expr, scopes, h[s].module_path,
             Append(h[s].local_path, n)), LAMBDA obj :
         IF obj.st # "ok"
         THEN obj
         ELSE
    Bind(SetAttribute(obj.h, s, n, obj.obj).h, LAMBDA bound :
         IF v = MISSING
         THEN SafeDeleteValue(bound, s, n)
         ELSE Scope_set_nested_value(bound, s, <<n>>, v)))

\* ScopeParser.visit_ImportFrom for `from <module> import name as alias`
\* (alias = name without `as`), the module resolved and no file for a
\* submodule <module>.name
visit_ImportFrom_name(h, s, module, name, alias) ==
    Bind(GetAttribute(h, module, name), LAMBDA found :
         IF found.st = "KeyError"
         THEN Bind(PlainObject_init(found.h, "UNKNOWN", h[module].module_path,
                                    <<name>>, <<>>), LAMBDA made :
                   IF made.st # "ok"
                   THEN made
                   ELSE
              Bind(SetAttribute(made.h, module, name, made.obj).h, LAMBDA h1 :
                   SetAttribute(h1, s, alias, made.obj)))
         ELSE IF found.st # "ok"
         THEN found
         ELSE
    Bind(SetAttribute(found.h, s, alias, found.obj).h, LAMBDA h1 :
         IF name \in DOMAIN Values(h1, module)
         THEN Plain_set_value(h1, s, alias, Values(h1, module)[name])
         ELSE Outcome("ok", 0, h1)))

BUILTINS_PROPERTY_LOCAL_OBJECT_PATH == <<"property">>

PROPERTY_ACCESSOR_PATHS ==
    {<<"property", "deleter">>, <<"property", "setter">>}

TYPES_FUNCTION_TYPE_LOCAL_OBJECT_PATH == <<"FunctionType">>

\* the values of an empty list and an empty dict
EmptyList == [tag |-> "list", v |-> 0]
EmptyDict == [tag |-> "dict", v |-> 0]

RECURSIVE Decorated(_, _, _, _, _, _, _)
\* ScopeParser._visit_any_function_def, the loop over node.decorator_list
\* and its else branch: the object of the function, st = "return" where
\* the handler returns without one. No decorator comes from functools.
Decorated(h, s, scopes, B, T, name, decorators) ==
    IF Len(decorators) = 0
    THEN Bind(GetNestedAttribute(h, T, TYPES_FUNCTION_TYPE_LOCAL_OBJECT_PATH),
              LAMBDA cls :
              IF cls.st # "ok"
              THEN cls
              ELSE PlainObject_init(cls.h, "ROUTINE", h[s].module_path,
                                    Append(h[s].local_path, name),
                                    <<cls.obj>>))
    ELSE Bind(lookup_object_by_expression_node(h, Head(decorators), scopes),
              LAMBDA d :
              IF d.st # "ok"
              THEN d
              ELSE IF d.obj = 0
              THEN Decorated(d.h, s, scopes, B, T, name, Tail(decorators))
              ELSE IF /\ d.h[d.obj].module_path = "builtins"
                      /\ d.h[d.obj].local_path
                            = BUILTINS_PROPERTY_LOCAL_OBJECT_PATH
              THEN Bind(GetNestedAttribute(
                            d.h, B, BUILTINS_PROPERTY_LOCAL_OBJECT_PATH),
                        LAMBDA cls :
                        IF cls.st # "ok"
                        THEN cls
                        ELSE PlainObject_init(
                                 cls.h, "PROPERTY", h[s].module_path,
                                 Append(h[s].local_path, name), <<cls.obj>>))
              ELSE IF /\ d.h[d.obj].module_path = "builtins"
                      /\ d.h[d.obj].local_path \in PROPERTY_ACCESSOR_PATHS
              THEN Outcome("return", 0, d.h)
              ELSE IF KindOf(d.h, d.obj) = "CLASS"
              THEN PlainObject_init(d.h, "INSTANCE", h[s].module_path,
                                    Append(h[s].local_path, name), <<d.obj>>)
              ELSE Decorated(d.h, s, scopes, B, T, name, Tail(decorators)))

\* ScopeParser._visit_any_function_def: function.set_attribute(field,
\* PlainObject(INSTANCE, ..., cls)) and function.set_value(field, value)
SetDefaults(h, function, B, field, cls_name, value) ==
    Bind(GetNestedAttribute(h, B, <<cls_name>>), LAMBDA cls :
         IF cls.st # "ok"
         THEN cls
         ELSE
    Bind(PlainObject_init(cls.h, "INSTANCE", h[function].module_path,
                          Append(h[function].local_path, field),
                          <<cls.obj>>), LAMBDA made :
    Bind(SetAttribute(made.h, function, field, made.obj).h, LAMBDA h1 :
         SetValue(h1, function, field, value))))

\* ScopeParser._visit_any_function_def for `def name(): ...` under the
\* decorators given, in scope s whose parents follow it in scopes; B and T
\* are BUILTINS_MODULE and TYPES_MODULE.
visit_FunctionDef(h, s, scopes, B, T, name, decorators) ==
    Bind(Decorated(h, s, scopes, B, T, name, decorators), LAMBDA function :
         IF function.st = "return"
         THEN Outcome("ok", 0, function.h)
         ELSE IF function.st # "ok"
         THEN function
         ELSE
    Bind(IF name = "__getattr__" /\ h[s].kind = "STATIC_MODULE"
         THEN Scope_mark_module_as_dynamic(function.h, s).h
         ELSE function.h, LAMBDA h1 :
    Bind(SetDefaults(h1, function.obj, B, "__defaults__", "tuple",
                     EmptyList), LAMBDA positional :
         IF positional.st # "ok"
         THEN positional
         ELSE
    Bind(SetDefaults(positional.h, function.obj, B, "__kwdefaults__", "dict",
                     EmptyDict), LAMBDA keyword_only :
         IF keyword_only.st # "ok"
         THEN keyword_only
         ELSE Outcome("ok", function.obj,
                      SetAttribute(keyword_only.h, s, name,
                                   function.obj).h)))))

-----------------------------------------------------------------------------
(* SpecWalk: the statements of module m, walked in its module scope *)

MaxWalked == 3      \* statements walked in a run

NewRoutine(module_path, local_path) ==
    NewRecord("Routine", "ROUTINE", module_path, local_path, <<>>, 0, 0)

Wx == [scope |-> 1, builtinsScope |-> 2, property |-> 14,
       staticmethod |-> 18, builtins |-> 19, types |-> 23,
       qScope |-> 24, q |-> 25, y |-> 26]

\* ClassFixture, then the builtin classes tuple, property (with its setter
\* and deleter) and staticmethod, the modules builtins and types, and a
\* module q of kind qkind that binds y, with a value
WalkFixture(qkind) ==
    [ClassFixture EXCEPT ![2].objects =
        [x \in {"object", "type", "dict", "str", "tuple", "property",
                "staticmethod"} |->
            CASE x = "object" -> 4 [] x = "type" -> 6
              [] x = "dict" -> 8 [] x = "str" -> 10
              [] x = "tuple" -> 12 [] x = "property" -> 14
              [] x = "staticmethod" -> 18]]
    \o <<NewScope("CLASS", "builtins", <<"tuple">>),
         NewClass("builtins", <<"tuple">>, <<4>>, 11, 6),
         [NewScope("CLASS", "builtins", <<"property">>) EXCEPT !.objects =
             [x \in {"setter", "deleter"} |->
                 IF x = "setter" THEN 15 ELSE 16]],
         NewClass("builtins", <<"property">>, <<4>>, 13, 6),
         NewRoutine("builtins", <<"property", "setter">>),
         NewRoutine("builtins", <<"property", "deleter">>),
         NewScope("CLASS", "builtins", <<"staticmethod">>),
         NewClass("builtins", <<"staticmethod">>, <<4>>, 17, 6),
         NewModule("builtins", 2),
         [NewScope("STATIC_MODULE", "types", <<>>) EXCEPT !.objects =
             [x \in {"FunctionType"} |-> 22]],
         NewScope("CLASS", "types", <<"FunctionType">>),
         NewClass("types", <<"FunctionType">>, <<4>>, 21, 6),
         NewModule("types", 20),
         [NewScope(qkind, "q", <<>>) EXCEPT
             !.objects = [x \in {"y"} |-> 26],
             !.values = [x \in {"y"} |-> Const(1)]],
         NewModule("q", 24),
         NewUnknownObject("q", <<"y">>)>>

InitWalk ==
    /\ cache = EmptyMap
    /\ \E qkind \in {"STATIC_MODULE", "DYNAMIC_MODULE"} :
           heap = WalkFixture(qkind)
    /\ call = NoCall
    /\ res = NoRes
    /\ returned = {}
    /\ MODULES = EmptyMap
    /\ files = EmptyMap
    /\ stack = <<>>
    /\ exc = ""
    /\ log = <<>>

\* One walked statement: the call, its outcome, and its place in the log of
\* the statements walked.
Walk(op, n, path, t, outcome) ==
    /\ Len(log) < MaxWalked
    /\ Step(op, Wx.scope, n, path, t, MISSING, outcome)
    /\ log' = Append(log, op)
    /\ UNCHANGED <<MODULES, files, stack, exc, cache>>

WalkScopes == <<Wx.scope, Wx.builtinsScope>>

\* the names a statement of m can bind or import
WalkNames == {"f", "g"}
QNames == {"y", "z"}

\* the value nodes of an assignment with what their evaluation gives: the
\* constant 1, or a name y, which gives the value that m binds to y or
\* raises an evaluation exception
AssignedValues(h) ==
    {[expr |-> OtherExpr, v |-> Const(1)]}
    \cup {[expr |-> NameExpr(y), v |-> MISSING] : y \in WalkNames \cup {"q"}}
    \cup {[expr |-> NameExpr(y), v |-> h[Wx.scope].values[y]] :
              y \in (WalkNames \cup {"q"}) \cap DOMAIN h[Wx.scope].values}

\* `n = 1` and `n = y`
WalkAssign ==
    \E n \in WalkNames, value \in AssignedValues(heap) :
        Walk("visit_Assign", n, <<value.expr.id>>, 0,
             process_assignment(heap, Wx.scope, WalkScopes, n, value.expr,
                                value.v))

\* `import q` and `import q as n`
WalkImport ==
    \E n \in WalkNames \cup {"q"} :
        Walk("visit_Import", n, <<"q">>, Wx.q,
             Outcome("ok", Wx.q, BindModule(heap, Wx.scope, n, Wx.q)))

\* `from q import name` and `from q import name as alias`
WalkImportFrom ==
    \E name \in QNames, alias \in WalkNames \cup QNames :
        /\ alias \in QNames => alias = name
        /\ Walk("visit_ImportFrom", alias, <<name>>, Wx.q,
                visit_ImportFrom_name(heap, Wx.scope, Wx.q, name, alias))

\* `class n: pass` and `class n: f = 1`
WalkClassDef ==
    \E n \in WalkNames, body \in {<<>>, <<"f">>} :
        Walk("visit_ClassDef", n, <<>>, Len(body),
             visit_ClassDef(heap, Wx.scope, WalkScopes, Wx.builtinsScope, n,
                            <<>>, body))

Decorators ==
    {<<>>, <<NameExpr("property")>>, <<NameExpr("staticmethod")>>,
     <<OtherExpr>>, <<OtherExpr, NameExpr("property")>>}
    \cup {<<NameExpr(x)>> : x \in WalkNames}
    \cup {<<AttributeExpr(x, a)>> : x \in WalkNames, a \in {"setter", "deleter"}}

\* the source text of a decorator list
Show(decorators) ==
    [i \in 1..Len(decorators) |->
        IF decorators[i].node = "Attribute"
        THEN decorators[i].attr
        ELSE IF decorators[i].node = "Name" THEN decorators[i].id ELSE "?"]

\* get_attribute on the object that m binds to x ends: x is unbound, or a
\* module, an unknown object or a property (a miss on a class that derives
\* from builtin object recurses without end, see Finds)
Ends(h, x) ==
    IF x \notin DOMAIN h[Wx.scope].objects
    THEN TRUE
    ELSE \/ h[h[Wx.scope].objects[x]].cls \in {"Module", "UnknownObject"}
         \/ /\ h[h[Wx.scope].objects[x]].cls = "PlainObject"
            /\ h[h[Wx.scope].objects[x]].kind = "PROPERTY"

\* `@decorators def n(): ...`
WalkFunctionDef ==
    \E n \in WalkNames, decorators \in Decorators :
        /\ \A i \in 1..Len(decorators) :
               decorators[i].node = "Attribute" => Ends(heap, decorators[i].id)
        /\ Walk("visit_FunctionDef", n, Show(decorators), 0,
                visit_FunctionDef(heap, Wx.scope, WalkScopes, Wx.builtins,
                                  Wx.types, n, decorators))

NextWalk ==
    \/ WalkAssign
    \/ WalkImport
    \/ WalkImportFrom
    \/ WalkClassDef
    \/ WalkFunctionDef

SpecWalk == InitWalk /\ [][NextWalk]_vars

\* the records that bind names: scopes and the objects with attributes
Holders(h) == {s \in DOMAIN h : h[s].cls # "Method"}

-----------------------------------------------------------------------------
(* scope_parser.py: try, with and if around statements that raise *)

EVALUATION_EXCEPTIONS ==
    {"AttributeError", "IndexError", "KeyError", "NameError", "TypeError"}

\* type(error).mro()[:-1], as local paths in builtins
Mro(error) ==
    {<<error>>, <<"Exception">>, <<"BaseException">>}
    \cup (IF error = "ModuleNotFoundError" THEN {<<"ImportError">>} ELSE {})
    \cup (IF error \in {"IndexError", "KeyError"}
          THEN {<<"LookupError">>} ELSE {})

\* the comparison of an exception type object with the classes of the error
Matches(h, type, error) ==
    h[type].module_path = "builtins" /\ h[type].local_path \in Mro(error)

\* ScopeParser.visit for `f = 1` (Assign f), `g = f` (AssignName f),
\* `from q import *` (ImportStar) and `import n` for a path n that is in no
\* mapping (Import n), in scope s; q is the Module of q
visit_statement(h, s, scopes, q, stmt) ==
    CASE stmt.kind = "Assign" ->
            process_assignment(h, s, scopes, stmt.arg, OtherExpr, Const(1))
      [] stmt.kind = "AssignName" ->
            process_assignment(h, s, scopes, "g", NameExpr(stmt.arg), MISSING)
      [] stmt.kind = "ImportStar" -> visit_ImportFrom_star(h, s, q)
      [] stmt.kind = "Import" -> Outcome("ModuleNotFoundError", 0, h)

RECURSIVE VisitStatements(_, _, _, _, _, _)
\* `for node in body: self.visit(node)`: the walk ends at the first raise
VisitStatements(h, s, scopes, q, body, i) ==
    IF i > Len(body)
    THEN Outcome("ok", 0, h)
    ELSE Bind(visit_statement(h, s, scopes, q, body[i]), LAMBDA r :
              IF r.st # "ok"
              THEN r
              ELSE VisitStatements(r.h, s, scopes, q, body, i + 1))

\* an except clause: `except:` has type NoType, `except T:` has name ""
NoType == [node |-> "None", id |-> ""]
Handler(type, name, body) == [type |-> type, name |-> name, body |-> body]

\* ScopeParser.visit_Try, a handler that matched: the exception name is
\* bound to an instance of the type, the handler body is walked and the name
\* is deleted again
VisitHandler(h, s, scopes, q, handler, type) ==
    IF handler.name = ""
    THEN VisitStatements(h, s, scopes, q, handler.body, 1)
    ELSE IF type = 0
    THEN Outcome("AssertionError", 0, h)
    ELSE
    Bind(PlainObject_init(h, "INSTANCE", h[s].module_path,
                          Append(h[s].local_path, handler.name), <<type>>),
         LAMBDA made :
    Bind(SetAttribute(made.h, s, handler.name, made.obj).h, LAMBDA bound :
    Bind(VisitStatements(bound, s, scopes, q, handler.body, 1), LAMBDA r :
         IF r.st # "ok"
         THEN r
         ELSE Scope_delete_object(r.h, s, handler.name))))

RECURSIVE Handle(_, _, _, _, _, _, _)
\* ScopeParser.visit_Try, `except Exception as error:` the loop over
\* node.handlers and its else branch, which raises the error again
Handle(h, s, scopes, q, error, handlers, i) ==
    IF i > Len(handlers)
    THEN Outcome(error, 0, h)
    ELSE Bind(IF handlers[i].type.node = "None"
              THEN Outcome("ok", 0, h)
              ELSE lookup_object_by_expression_node(h, handlers[i].type,
                                                    scopes), LAMBDA type :
              IF type.st # "ok"
              THEN type
              ELSE IF type.obj = 0 \/ Matches(type.h, type.obj, error)
              THEN VisitHandler(type.h, s, scopes, q, handlers[i], type.obj)
              ELSE Handle(type.h, s, scopes, q, error, handlers, i + 1))

\* ScopeParser.visit_Try for `try: body except ...: ...` without else: every
\* exception the walk of the body raises is an Exception
visit_Try(h, s, scopes, q, body, handlers) ==
    Bind(VisitStatements(h, s, scopes, q, body, 1), LAMBDA r :
         IF r.st = "ok"
         THEN r
         ELSE Handle(r.h, s, scopes, q, r.st, handlers, 1))

CONTEXTLIB_SUPPRESS_LOCAL_OBJECT_PATH == <<"suppress">>

\* a with item `func(arg)`, without `as`
CallItem(func, arg) == [node |-> "Call", func |-> func, arg |-> arg]

\* ScopeParser.visit_With for `with func(arg): body`: an evaluation
\* exception of the body is swallowed when func is contextlib.suppress and
\* arg names a class of the error
visit_With(h, s, scopes, q, item, body) ==
    Bind(VisitStatements(h, s, scopes, q, body, 1), LAMBDA r :
         IF r.st \notin EVALUATION_EXCEPTIONS
         THEN r
         ELSE
    Bind(lookup_object_by_expression_node(r.h, item.func, scopes),
         LAMBDA callable :
         IF callable.st # "ok"
         THEN callable
         ELSE IF callable.obj = 0
         THEN Outcome(r.st, 0, callable.h)
         ELSE IF ~ (/\ callable.h[callable.obj].module_path = "contextlib"
                    /\ callable.h[callable.obj].local_path
                          = CONTEXTLIB_SUPPRESS_LOCAL_OBJECT_PATH)
         THEN Outcome(r.st, 0, callable.h)
         ELSE
    Bind(lookup_object_by_expression_node(callable.h, item.arg, scopes),
         LAMBDA type :
         IF type.st # "ok"
         THEN type
         ELSE IF type.obj # 0 /\ Matches(type.h, type.obj, r.st)
         THEN Outcome("ok", 0, type.h)
         ELSE Outcome(r.st, 0, type.h))))

\* ScopeParser.visit_If for a test whose evaluation raised an evaluation
\* exception: body and orelse are walked under contextlib.suppress of the
\* evaluation exceptions
visit_If_unevaluated(h, s, scopes, q, body, orelse) ==
    Bind(VisitStatements(h, s, scopes, q, body \o orelse, 1), LAMBDA r :
         IF r.st \in EVALUATION_EXCEPTIONS
         THEN Outcome("ok", 0, r.h)
         ELSE r)

-----------------------------------------------------------------------------
(* SpecGuard: statements of module m inside try, with and if *)

MaxGuarded == 2     \* statements walked in a run

ExceptionNames == {"Exception", "NameError", "AssertionError", "ImportError"}

Gx == [Exception |-> 28, NameError |-> 30, AssertionError |-> 32,
       ImportError |-> 34, suppress |-> 37]

\* WalkFixture with q a static module, the builtin exception classes, the
\* module contextlib with its class suppress, and m after
\* `from contextlib import suppress`
GuardFixture ==
    [WalkFixture("STATIC_MODULE") EXCEPT
        ![1].objects = [x \in {"suppress"} |-> Gx.suppress],
        ![2].objects =
            [x \in DOMAIN WalkFixture("STATIC_MODULE")[2].objects
                      \cup ExceptionNames |->
                IF x \in ExceptionNames
                THEN Gx[x]
                ELSE WalkFixture("STATIC_MODULE")[2].objects[x]]]
    \o <<NewScope("CLASS", "builtins", <<"Exception">>),
         NewClass("builtins", <<"Exception">>, <<4>>, 27, 6),
         NewScope("CLASS", "builtins", <<"NameError">>),
         NewClass("builtins", <<"NameError">>, <<28>>, 29, 6),
         NewScope("CLASS", "builtins", <<"AssertionError">>),
         NewClass("builtins", <<"AssertionError">>, <<28>>, 31, 6),
         NewScope("CLASS", "builtins", <<"ImportError">>),
         NewClass("builtins", <<"ImportError">>, <<28>>, 33, 6),
         [NewScope("STATIC_MODULE", "contextlib", <<>>) EXCEPT !.objects =
             [x \in {"suppress"} |-> Gx.suppress]],
         NewScope("CLASS", "contextlib", <<"suppress">>),
         NewClass("contextlib", <<"suppress">>, <<4>>, 36, 6),
         NewModule("contextlib", 35)>>

InitGuard ==
    /\ cache = EmptyMap
    /\ heap = GuardFixture
    /\ call = NoCall
    /\ res = NoRes
    /\ returned = {}
    /\ MODULES = EmptyMap
    /\ files = EmptyMap
    /\ stack = <<>>
    /\ exc = ""
    /\ log = <<>>

GuardedStatements ==
    {Stmt("Assign", "f"), Stmt("AssignName", "f"), Stmt("ImportStar", "q"),
     Stmt("Import", "n")}

GuardedBodies ==
    {<<a>> : a \in GuardedStatements}
    \cup {<<Stmt("Assign", "f"), a>> : a \in GuardedStatements}

HandlerTypes == {NoType} \cup {NameExpr(x) : x \in ExceptionNames}

\* `except:`, `except T:` and `except T as e:` with a body
Handlers ==
    {Handler(type, name, body) :
        type \in HandlerTypes, name \in {"", "e"},
        body \in {<<>>, <<Stmt("Assign", "f")>>}}
    \ {Handler(NoType, "e", body) : body \in {<<>>, <<Stmt("Assign", "f")>>}}

HandlerLists ==
    {<<a>> : a \in Handlers}
    \cup {<<Handler(a, "", <<>>), Handler(b, "", <<>>)>> :
             a \in HandlerTypes, b \in HandlerTypes}

\* One walked statement of m: what the statements inside it raised first
\* ("ok" when none raised), and what the statement itself raised.
Guarded(op, shown, inside, outcome) ==
    /\ Len(log) < MaxGuarded
    /\ Step(op, Wx.scope, "", shown, 0, MISSING, outcome)
    /\ exc' = inside
    /\ log' = Append(log, op)
    /\ UNCHANGED <<MODULES, files, stack, cache>>

Inside(body) == VisitStatements(heap, Wx.scope, WalkScopes, Wx.q, body, 1).st

Kinds(body) == [i \in 1..Len(body) |-> body[i].kind]

\* a statement of m outside any block
GuardPlain ==
    \E a \in GuardedStatements :
        Guarded("visit", Kinds(<<a>>), Inside(<<a>>),
                visit_statement(heap, Wx.scope, WalkScopes, Wx.q, a))

\* `try: body except ...: ...`
GuardTry ==
    \E body \in GuardedBodies, handlers \in HandlerLists :
        Guarded("visit_Try", Kinds(body), Inside(body),
                visit_Try(heap, Wx.scope, WalkScopes, Wx.q, body, handlers))

WithItems ==
    {CallItem(NameExpr("suppress"), NameExpr(x)) : x \in ExceptionNames}
    \cup {CallItem(OtherExpr, OtherExpr),
          CallItem(NameExpr("Exception"), OtherExpr)}

\* `with item: body`
GuardWith ==
    \E body \in GuardedBodies, item \in WithItems :
        Guarded("visit_With", Kinds(body), Inside(body),
                visit_With(heap, Wx.scope, WalkScopes, Wx.q, item, body))

\* `if test: body else: orelse` for a test that cannot be evaluated
GuardIf ==
    \E body \in GuardedBodies, orelse \in {<<>>} \cup GuardedBodies :
        Guarded("visit_If", Kinds(body \o orelse), Inside(body \o orelse),
                visit_If_unevaluated(heap, Wx.scope, WalkScopes, Wx.q, body,
                                     orelse))

NextGuard == GuardPlain \/ GuardTry \/ GuardWith \/ GuardIf

SpecGuard == InitGuard /\ [][NextGuard]_vars

\* the conditions the components raise by design: the evaluation exceptions
\* and the failure to find a module
EXPECTED_EXCEPTIONS == EVALUATION_EXCEPTIONS \cup {"ModuleNotFoundError"}

\* C12: an assertion failure, or any other exception outside the expected
\* ones, raised by a statement inside a try body with except clauses, a with
\* block or an if with an unevaluated test is what the walk of the enclosing
\* statement raises: the walker does not swallow or replace it.
C12_FatalPropagates ==
    [][(exc' \notin EXPECTED_EXCEPTIONS \cup {"ok"}) => res'.st = exc']_vars

-----------------------------------------------------------------------------
(* __main__.py: the loop of main over the module files *)

MaxFiles == 2       \* module files under the processed directory

\* A module file: the directories between the root and the file, its name
\* without suffix, and what resolve_module_path does with its module.
File(dir, name, load) == [dir |-> dir, name |-> name, load |-> load]

FileNames == {"a", "__init__", "a-b"}
FileDirs == {<<>>, <<"pkg">>}
LoadOutcomes == {"ok", "SyntaxError", "AssertionError"}

\* str.isidentifier (and not a keyword) for the names at hand
is_object_path_component_valid(component) == component # "a-b"

\* ModulePath(*module_file_path.relative_to(root_path).parent.parts,
\*            *((module_name,) if module_name != '__init__' else ()));
\* __new__ takes at least one component and raises ValueError on an
\* invalid one
ModulePathOf(file) ==
    LET components == file.dir \o
                      (IF file.name # "__init__" THEN <<file.name>> ELSE <<>>)
    IN  IF Len(components) = 0
        THEN [st |-> "TypeError", components |-> <<>>]
        ELSE IF \E i \in 1..Len(components) :
                    ~ is_object_path_component_valid(components[i])
             THEN [st |-> "ValueError", components |-> <<>>]
             ELSE [st |-> "ok", components |-> components]

\* str(module_file_path): the root (the processed directory), the
\* directories and the file name with its suffix
PathString(file) == <<"root">> \o file.dir \o <<file.name, ".py">>

Write(stream, about, text) == [stream |-> stream, about |-> about, text |-> text]

\* One iteration of the loop: what is written, and the exception that
\* leaves main ("" when the loop goes on).
main_iteration(file) ==
    LET module_path == ModulePathOf(file)
    IN  IF module_path.st = "ValueError"
        THEN [writes |-> <<Write("stderr", file,
                                 <<"Failed parsing module path of">>)>>,
              raised |-> ""]
        ELSE IF module_path.st # "ok"
        THEN [writes |-> <<>>, raised |-> module_path.st]
        ELSE IF file.load # "ok"
        THEN [writes |-> <<Write("stderr", file,
                                 <<"Failed loading", file.load>>)>>,
              raised |-> ""]
        ELSE [writes |-> <<Write("stdout", file, PathString(file))>>,
              raised |-> ""]

(* SpecMain: main over the files that rglob yields *)

\* the module files: distinct paths, each with the outcome of its load
FileLists ==
    {fs \in UNION {[1..k -> {File(d, n, l) : d \in FileDirs, n \in FileNames,
                                            l \in LoadOutcomes}] :
                      k \in 1..MaxFiles} :
        \A i, j \in 1..Len(fs) :
            i # j => <<fs[i].dir, fs[i].name>> # <<fs[j].dir, fs[j].name>>}

\* files are the module files in the order of the loop, stack the ones still
\* to come, log the writes so far, exc the exception that ended main
InitMain ==
    /\ cache = EmptyMap
    /\ files \in FileLists
    /\ stack = files
    /\ log = <<>>
    /\ exc = ""
    /\ heap = <<>>
    /\ call = NoCall
    /\ res = NoRes
    /\ returned = {}
    /\ MODULES = EmptyMap

ProcessFile ==
    /\ stack # <<>>
    /\ exc = ""
    /\ \E r \in {main_iteration(Head(stack))} :
        /\ log' = log \o r.writes
        /\ exc' = r.raised
        /\ stack' = IF r.raised = "" THEN Tail(stack) ELSE stack
    /\ UNCHANGED <<heap, call, res, returned, MODULES, files, cache>>

NextMain == ProcessFile

SpecMain == InitMain /\ [][NextMain]_vars

\* the files the loop is done with
Processed == SubSeq(files, 1, Len(files) - Len(stack))

\* C13: no failure of a module file ends the run, the files are reported in
\* the order of the loop, one report each; the path of a file is written to
\* stdout exactly when nothing was raised for it, every failure goes to
\* stderr; when nothing fails stderr is empty and every stdout line is the
\* path of one of the files under the processed directory.
C13_DriverIsolatesFailures ==
    /\ exc = ""
    /\ Len(log) = Len(Processed)
    /\ \A i \in 1..Len(log) :
        /\ log[i].about = files[i]
        /\ log[i].stream = "stdout"
              <=> (ModulePathOf(files[i]).st = "ok" /\ files[i].load = "ok")
        /\ log[i].stream = "stdout"
              => /\ log[i].text = PathString(files[i])
                 /\ SubSeq(log[i].text, 1, 1) = <<"root">>
        /\ log[i].stream # "stdout" => log[i].stream = "stderr"
    /\ (\A i \in 1..Len(Processed) :
            ModulePathOf(files[i]).st = "ok" /\ files[i].load = "ok")
          => \A i \in 1..Len(log) : log[i].stream = "stdout"

-----------------------------------------------------------------------------
(* mapping_chain.py, attribute_mapping.py: the mapping as_object() returns *)

\* MappingChain.__contains__
MappingChain_contains(mappings, key) ==
    \E i \in 1..Len(mappings) : key \in DOMAIN mappings[i]

\* a __getitem__ that walks the mappings from the last to the first
RECURSIVE MappingChain_getitem_reversed(_, _)
MappingChain_getitem_reversed(mappings, key) ==
    IF Len(mappings) = 0
    THEN [st |-> "KeyError", value |-> MISSING]
    ELSE IF key \in DOMAIN mappings[Len(mappings)]
         THEN [st |-> "ok", value |-> mappings[Len(mappings)][key]]
         ELSE MappingChain_getitem_reversed(Front(mappings), key)

\* MappingChain.__getitem__
RECURSIVE MappingChain_getitem(_, _)
MappingChain_getitem(mappings, key) ==
    IF Len(mappings) = 0
    THEN [st |-> "KeyError", value |-> MISSING]
    ELSE IF key \in DOMAIN Head(mappings)
         THEN [st |-> "ok", value |-> Head(mappings)[key]]
         ELSE MappingChain_getitem(Tail(mappings), key)

\* a __getattr__ over the reversed chain
AttributeMapping_getattr_reversed(mappings, name) ==
    Bind(MappingChain_getitem_reversed(mappings, name), LAMBDA r :
         IF r.st = "KeyError" THEN [r EXCEPT !.st = "AttributeError"] ELSE r)

\* AttributeMapping.__getattr__
AttributeMapping_getattr(mappings, name) ==
    Bind(MappingChain_getitem(mappings, name), LAMBDA r :
         IF r.st = "KeyError" THEN [r EXCEPT !.st = "AttributeError"] ELSE r)

\* as_object of Scope, Class, PlainObject, Routine, Module and UnknownObject:
\* the mappings of the chain (_values of a Module is _values of its scope)
as_object(h, o) ==
    CASE h[o].cls = "Module" ->
            <<Values(h, o)>> \o
            [i \in 1..Len(h[h[o].scope].included) |->
                Values(h, h[h[o].scope].included[i])]
      [] h[o].cls = "UnknownObject" -> <<h[o].values>>
      [] OTHER ->
            <<h[o].values>> \o
            [i \in 1..Len(h[o].included) |-> Values(h, h[o].included[i])]

(* SpecChain: value tables of a scope with star-imports and of a class with
   two bases *)

ChainValues == {Const(1), Const(2)}

Cx == [scope |-> 1, pkg |-> 3, q |-> 5, A |-> 3, B |-> 5, C |-> 7]

\* the name f is bound in every scope and class of the fixture
BindEverywhere(h) ==
    [o \in DOMAIN h |->
        IF h[o].cls = "Class" \/ (h[o].cls = "Scope" /\ h[o].kind # "CLASS")
        THEN [h[o] EXCEPT !.objects = MapSet(@, "f", 1)]
        ELSE h[o]]

\* a module scope with the modules pkg and q to star-import
ScopeChainFixture == BindEverywhere(ScopeFixture("STATIC_MODULE"))

\* the classes A, B and C(A, B) of module m
ClassChainFixture ==
    BindEverywhere(<<NewScope("STATIC_MODULE", "m", <<>>),
                     NewScope("CLASS", "m", <<"A">>),
                     NewClass("m", <<"A">>, <<>>, 2, 0),
                     NewScope("CLASS", "m", <<"B">>),
                     NewClass("m", <<"B">>, <<>>, 4, 0),
                     NewScope("CLASS", "m", <<"C">>),
                     NewClass("m", <<"C">>, <<3, 5>>, 6, 0)>>)

InitChain ==
    /\ heap \in {ScopeChainFixture, ClassChainFixture}
    /\ call = NoCall
    /\ res = NoRes
    /\ returned = {}
    /\ IdleLoader

\* the scopes, modules and classes that bind f
ChainHolders(h) == {o \in DOMAIN h : "f" \in DOMAIN Objects(h, o)}

\* the results of a read are kept until the next operation
ChainForget == exc' = "" /\ log' = <<>> /\ UNCHANGED <<MODULES, files, stack, cache>>

\* set_value on one of the holders
ChainSetValue ==
    \E o \in ChainHolders(heap), v \in ChainValues \cup {MISSING} :
        /\ Do_set_value(o, "f", v)
        /\ ChainForget

ChainStarImport ==
    \E m \in {o \in DOMAIN heap : heap[o].cls = "Module"} :
        /\ Step("star_import", Cx.scope, "", <<>>, m, MISSING,
                visit_ImportFrom_star(heap, Cx.scope, m))
        /\ ChainForget

\* as_object() of o and a read of one name in it: exc is the outcome of the
\* read, log what was read and whether the name is in the mapping
ChainRead ==
    \E o \in DOMAIN heap, n \in Names :
        /\ heap[o].cls # "Scope" \/ heap[o].kind # "CLASS"
        /\ Step("as_object", o, n, <<>>, 0, MISSING, Outcome("ok", 0, heap))
        /\ \E r \in {AttributeMapping_getattr(as_object(heap, o), n)} :
              /\ exc' = r.st
              /\ log' = <<r.value, MappingChain_contains(as_object(heap, o), n)>>
        /\ UNCHANGED <<MODULES, files, stack, cache>>

NextChain == ChainSetValue \/ ChainStarImport \/ ChainRead

SpecChain == InitChain /\ [][NextChain]_vars

\* the layers of o: o itself, then its included objects or bases in order
LayerObjects(h, o) == <<o>> \o h[Holder(h, o)].included

\* C14: a name read in as_object() of o has the value of the first layer, o
\* itself before its included objects or bases in their order, whose own
\* value table has the name; the name is in the mapping exactly when some
\* layer has it, and the read fails when none has.
C14_LayeredMapping ==
    [][call'.op = "as_object" =>
        LET o == call'.obj
            n == call'.name
            layers == LayerObjects(heap, o)
            having == {i \in 1..Len(layers) : n \in DOMAIN Values(heap, layers[i])}
        IN  /\ log'[2] <=> having # {}
            /\ having = {} => exc' \in {"KeyError", "AttributeError"}
            /\ having # {} =>
                  \E i \in having :
                      /\ \A j \in having : i <= j
                      /\ exc' = "ok"
                      /\ log'[1] = Values(heap, layers[i])[n]
            /\ heap' = heap]_vars

\* a read of f in the class C(A, B): C has no value of its own, A and B have
\* different ones, and the value of A is read
C14_Witness ==
    /\ call.op = "as_object"
    /\ heap[call.obj].cls = "Class" /\ call.obj = Cx.C /\ call.name = "f"
    /\ "f" \notin DOMAIN heap[Cx.C].values
    /\ "f" \in DOMAIN heap[Cx.A].values
    /\ "f" \in DOMAIN heap[Cx.B].values
    /\ heap[Cx.A].values["f"] # heap[Cx.B].values["f"]
    /\ exc = "ok"
    /\ log = <<heap[Cx.A].values["f"], TRUE>>

\* a read of f in a scope that star-imported q and then pkg: the scope has
\* no value of its own, q and pkg have different ones, the value of q is read
C14_WitnessScope ==
    /\ call.op = "as_object"
    /\ call.obj = Cx.scope /\ call.name = "f"
    /\ heap[Cx.scope].included = <<Cx.q, Cx.pkg>>
    /\ "f" \notin DOMAIN heap[Cx.scope].values
    /\ "f" \in DOMAIN Values(heap, Cx.q)
    /\ "f" \in DOMAIN Values(heap, Cx.pkg)
    /\ Values(heap, Cx.q)["f"] # Values(heap, Cx.pkg)["f"]
    /\ log = <<Values(heap, Cx.q)["f"], TRUE>>

-----------------------------------------------------------------------------
(* SpecWalk: the object a function definition binds *)

\* the object that the module scope binds to n after the step
BoundAfter(n) == heap'[heap'[Wx.scope].objects[n]]

\* every name of the module that is bound is bound to a property
OnlyProperties(h) ==
    \A x \in DOMAIN h[Wx.scope].objects :
        h[h[Wx.scope].objects[x]].cls = "PlainObject"
        /\ h[h[Wx.scope].objects[x]].kind = "PROPERTY"

\* C15: `def n` binds n to an object of kind PROPERTY under @property, to
\* an INSTANCE of the decorator's class under a decorator that is a class
\* (staticmethod), and to an object of kind ROUTINE when no decorator is
\* recognized; under the setter or deleter of a property it creates and
\* changes no binding.
C15_FunctionDefKind ==
    [][call'.op = "visit_FunctionDef" =>
        LET n == call'.name
            decorators == call'.path
        IN  /\ decorators = <<"property">> =>
                  /\ res'.st = "ok"
                  /\ n \in DOMAIN heap'[Wx.scope].objects
                  /\ BoundAfter(n).kind = "PROPERTY"
            /\ decorators = <<"staticmethod">> =>
                  /\ res'.st = "ok"
                  /\ n \in DOMAIN heap'[Wx.scope].objects
                  /\ BoundAfter(n).kind = "INSTANCE"
                  /\ BoundAfter(n).included = <<Wx.staticmethod>>
            /\ decorators \in {<<>>, <<"?">>} =>
                  /\ res'.st = "ok"
                  /\ n \in DOMAIN heap'[Wx.scope].objects
                  /\ BoundAfter(n).kind = "ROUTINE"
            /\ (/\ decorators \in {<<"setter">>, <<"deleter">>}
                /\ OnlyProperties(heap)) =>
                  heap'[Wx.scope].objects = heap[Wx.scope].objects]_vars

\* the decorated cases of C15 alone
C15_DecoratedKinds ==
    [][call'.op = "visit_FunctionDef" =>
        LET n == call'.name
            decorators == call'.path
        IN  /\ decorators = <<"property">> =>
                  /\ res'.st = "ok"
                  /\ n \in DOMAIN heap'[Wx.scope].objects
                  /\ BoundAfter(n).kind = "PROPERTY"
                  /\ BoundAfter(n).included = <<Wx.property>>
            /\ decorators = <<"staticmethod">> =>
                  /\ res'.st = "ok"
                  /\ n \in DOMAIN heap'[Wx.scope].objects
                  /\ BoundAfter(n).kind = "INSTANCE"
                  /\ BoundAfter(n).included = <<Wx.staticmethod>>
            /\ (/\ decorators \in {<<"setter">>, <<"deleter">>}
                /\ OnlyProperties(heap)) =>
                  /\ heap'[Wx.scope].objects = heap[Wx.scope].objects
                  /\ res'.st = "ok" => heap' = heap]_vars

\* the undecorated case as the code has it: the constructor refuses the
\* kind ROUTINE and nothing is bound
C15_UndecoratedRefused ==
    [][(call'.op = "visit_FunctionDef" /\ call'.path \in {<<>>, <<"?">>})
          => (res'.st = "AssertionError" /\ heap' = heap)]_vars

\* `@f.setter def f` walked after `@property def f`: the walk ends well and
\* f is still the property
C15_SetterWalked ==
    /\ call.op = "visit_FunctionDef"
    /\ call.path = <<"setter">>
    /\ res.st = "ok"
    /\ DOMAIN heap[Wx.scope].objects # {}
    /\ OnlyProperties(heap)

-----------------------------------------------------------------------------
(* evaluation.py, scope_parser.py: the assignment of a dict display *)

\* a dict value
Dict(map) == [tag |-> "dict", v |-> map]

\* A key/value pair of a Dict node; the key Spread stands for `**value`,
\* whose key node is None.
Spread == "**"
Item(key, value) == [key |-> key, value |-> value]

\* the loop of the ast.Dict rule, with a result that keeps the first value
\* of a key
RECURSIVE evaluate_Dict_keeping(_, _, _)
evaluate_Dict_keeping(items, i, result) ==
    IF i > Len(items)
    THEN [st |-> "ok", value |-> Dict(result)]
    ELSE IF items[i].key = Spread
    THEN [st |-> "TypeError", value |-> MISSING]
    ELSE evaluate_Dict_keeping(items, i + 1,
             IF items[i].key \in DOMAIN result
             THEN result
             ELSE MapSet(result, items[i].key, items[i].value))

\* the loop of the ast.Dict rule: result[key] = value for a pair with a key,
\* result.update(**value) for a spread, and a constant is no mapping
RECURSIVE evaluate_Dict(_, _, _)
evaluate_Dict(items, i, result) ==
    IF i > Len(items)
    THEN [st |-> "ok", value |-> Dict(result)]
    ELSE IF items[i].key = Spread
    THEN [st |-> "TypeError", value |-> MISSING]
    ELSE evaluate_Dict(items, i + 1,
                       MapSet(result, items[i].key, items[i].value))

\* an evaluation of a value node where a dict display keeps its first values
evaluate_expression_node_keeping(expr) ==
    IF expr.node = "Dict"
    THEN evaluate_Dict_keeping(expr.items, 1, EmptyMap)
    ELSE [st |-> "ok", value |-> Const(1)]

\* evaluate_expression_node of a value node: a Dict display of constants, or
\* the constant 1
evaluate_expression_node(expr) ==
    IF expr.node = "Dict"
    THEN evaluate_Dict(expr.items, 1, EmptyMap)
    ELSE [st |-> "ok", value |-> Const(1)]

\* ScopeParser.visit_Assign for `n = expr` in scope s
visit_Assign_node(h, s, scopes, n, expr) ==
    Bind(evaluate_expression_node(expr), LAMBDA value :
         IF value.st \notin EVALUATION_EXCEPTIONS \cup {"ok"}
         THEN Outcome(value.st, 0, h)
         ELSE process_assignment(h, s, scopes, n, expr,
                                 IF value.st = "ok" THEN value.value
                                 ELSE MISSING))

\* Scope.get_value
Scope_get_value(h, s, n) ==
    IF n \in DOMAIN h[s].values
    THEN [st |-> "ok", value |-> h[s].values[n]]
    ELSE [st |-> "KeyError", value |-> MISSING]

(* SpecAssign: assignments of dict displays and of constants to the names
   of module m *)

MaxAssigned == 2    \* assignments walked in a run
MaxItems == 2       \* pairs of a dict display

DictItems == {Item("a", Const(1)), Item("a", Const(2)), Item("b", Const(1)),
              Item(Spread, Const(1))}

DictDisplays == UNION {[1..k -> DictItems] : k \in 0..MaxItems}

InitAssign ==
    /\ heap = WalkFixture("STATIC_MODULE")
    /\ call = NoCall
    /\ res = NoRes
    /\ returned = {}
    /\ IdleLoader

Assign(n, expr) ==
    /\ Step("visit_Assign", Wx.scope, n, <<>>, 0, expr,
            visit_Assign_node(heap, Wx.scope, WalkScopes, n, expr))
    /\ log' = Append(log, n)
    /\ UNCHANGED <<MODULES, files, stack, exc, cache>>

\* `n = {...}`
AssignDict ==
    /\ Len(log) < MaxAssigned
    /\ \E n \in WalkNames, items \in DictDisplays : Assign(n, DictExpr(items))

\* `n = 1`
AssignConstant ==
    /\ Len(log) < MaxAssigned
    /\ \E n \in WalkNames : Assign(n, OtherExpr)

NextAssign == AssignDict \/ AssignConstant

SpecAssign == InitAssign /\ [][NextAssign]_vars

\* the dict that a display of constants denotes: each key with the value of
\* its last pair
Denoted(items) ==
    Dict([k \in {items[i].key : i \in 1..Len(items)} |->
            items[CHOOSE i \in 1..Len(items) :
                      /\ items[i].key = k
                      /\ \A j \in 1..Len(items) : items[j].key = k => j <= i].value])

\* C16: after `x = <dict display>` at module scope, for a display the
\* evaluator evaluates, get_value("x") on the module scope returns the dict
\* the display denotes, and x is bound to an object of kind INSTANCE that
\* includes the builtin dict class.
C16_DictRoundTrip ==
    [][(/\ call'.op = "visit_Assign"
        /\ call'.value.node = "Dict"
        /\ \A i \in 1..Len(call'.value.items) :
               call'.value.items[i].key # Spread)
          => /\ res'.st = "ok"
             /\ Scope_get_value(heap', Wx.scope, call'.name)
                   = [st |-> "ok", value |-> Denoted(call'.value.items)]
             /\ call'.name \in DOMAIN heap'[Wx.scope].objects
             /\ heap'[heap'[Wx.scope].objects[call'.name]].cls = "PlainObject"
             /\ heap'[heap'[Wx.scope].objects[call'.name]].kind = "INSTANCE"
             /\ heap'[heap'[Wx.scope].objects[call'.name]].included
                   = <<heap[Wx.builtinsScope].objects["dict"]>>]_vars

\* `f = {"a": 1, "a": 2}` walked after another assignment to f
C16_Witness ==
    /\ call.op = "visit_Assign"
    /\ call.name = "f"
    /\ call.value = DictExpr(<<Item("a", Const(1)), Item("a", Const(2))>>)
    /\ log = <<"f", "f">>
    /\ res.st = "ok"
    /\ heap[Wx.scope].values["f"] = Dict([k \in {"a"} |-> Const(2)])

-----------------------------------------------------------------------------
(* scope_parser.py: _does_function_modify_caller_global_state *)

\* Starred.UNKNOWN, and an argument whose value is known
Starred_UNKNOWN == [tag |-> "Starred.UNKNOWN", v |-> 0]
Known == Const(1)

\* function_namespace, as far as the analysis reads it
FunctionNamespace(module_path, local_path) ==
    [module_path |-> module_path, local_path |-> local_path]

\* cache_key
CacheKey(function) == <<function.module_path, function.local_path>>

\* A FunctionDef node: the number of its positional parameters and the
\* statements of its body. A statement is "pass"; "mark_own", a call of
\* globals().update; "mark_caller", a call of
\* sys.modules[<unevaluated>].__dict__.update, which lookup resolves to the
\* module of the caller; "raise", a statement whose walk raises (a nested
\* undecorated def); or "call_self", a call of the function itself without
\* arguments.
FunctionDef(params, body) == [params |-> params, body |-> body]

Verdict(st, result, h, c) == [st |-> st, result |-> result, h |-> h, c |-> c]

\* the verdict for a function without a definition node: eval and exec of
\* builtins with fewer than two known positional arguments and no globals
BuiltinVerdict(function, positional, keywords) ==
    /\ function.module_path = "builtins"
    /\ function.local_path \in {<<"eval">>, <<"exec">>}
    /\ Cardinality({i \in 1..Len(positional) :
                        positional[i] # Starred_UNKNOWN}) < 2
    /\ "globals" \notin keywords

RECURSIVE does_function_modify_caller_global_state(_, _, _, _, _, _, _)
RECURSIVE WalkFunctionBody(_, _, _, _, _, _, _)
RECURSIVE visit_body_node(_, _, _, _, _, _)

\* function_body_parser.visit(function_body_node): own is the scope of the
\* module that defines the function (the module scope of the body parser),
\* caller the caller_module_scope of the analysis
visit_body_node(h, c, node, function, caller, nodes) ==
    LET own == h[MODULES[function.module_path]].scope
    IN  CASE node = "pass" -> Verdict("ok", FALSE, h, c)
          [] node = "mark_own" ->
                Verdict("ok", FALSE, visit_Call_dict_update(h, own).h, c)
          [] node = "mark_caller" ->
                Verdict("ok", FALSE, visit_Call_dict_update(h, caller).h, c)
          [] node = "raise" -> Verdict("AssertionError", FALSE, h, c)
          [] node = "call_self" ->
                Bind(does_function_modify_caller_global_state(
                         h, c, function, own, <<>>, {}, nodes), LAMBDA r :
                     IF r.st = "ok" /\ r.result
                           /\ r.h[own].kind = "STATIC_MODULE"
                     THEN Verdict("ok", FALSE,
                                  Scope_mark_module_as_dynamic(r.h, own).h, r.c)
                     ELSE r)

\* the loop over function_definition_node.body
WalkFunctionBody(h, c, body, i, function, caller, nodes) ==
    IF i > Len(body)
    THEN Verdict("ok", FALSE, h, c)
    ELSE Bind(visit_body_node(h, c, body[i], function, caller, nodes),
              LAMBDA r :
              IF r.st # "ok"
              THEN r
              ELSE IF r.h[caller].kind = "DYNAMIC_MODULE"
              THEN Verdict("ok", TRUE, r.h, r.c)
              ELSE WalkFunctionBody(r.h, r.c, body, i + 1, function, caller,
                                    nodes))

\* _does_function_modify_caller_global_state: c is the cache, nodes are
\* function_definition_nodes, positional a sequence and keywords the set of
\* the names of keyword_arguments. The scope of the function holds its
\* parameters only: binding one constructs PlainObject(ObjectKind.UNKNOWN).
does_function_modify_caller_global_state(h, c, function, caller, positional, keywords, nodes) ==
    IF CacheKey(function) \in DOMAIN c
    THEN Verdict("ok", c[CacheKey(function)], h, c)
    ELSE IF CacheKey(function) \notin DOMAIN nodes
    THEN Verdict("ok", BuiltinVerdict(function, positional, keywords), h,
                 MapSet(c, CacheKey(function),
                        BuiltinVerdict(function, positional, keywords)))
    ELSE IF nodes[CacheKey(function)].params > 0
    THEN Verdict(PlainObject_init(h, "UNKNOWN", function.module_path,
                                  Append(function.local_path, "x"), <<>>).st,
                 FALSE, h, c)
    ELSE Bind(WalkFunctionBody(h, MapSet(c, CacheKey(function), FALSE),
                               nodes[CacheKey(function)].body, 1, function,
                               caller, nodes), LAMBDA r :
              IF r.st # "ok"
              THEN r
              ELSE IF Len(positional) > 0 \/ keywords # {}
              THEN [r EXCEPT !.c = MapDel(@, CacheKey(function))]
              ELSE r)

\* ScopeParser.visit_Call for a call of a routine from the module scope
\* caller: the module of the caller is marked when the verdict is True and
\* it is still static
visit_Call(h, c, function, caller, positional, keywords, nodes) ==
    Bind(does_function_modify_caller_global_state(
             h, c, function, caller, positional, keywords, nodes), LAMBDA r :
         IF r.st = "ok" /\ r.result /\ r.h[caller].kind = "STATIC_MODULE"
         THEN [r EXCEPT !.h = Scope_mark_module_as_dynamic(r.h, caller).h]
         ELSE r)

(* SpecVerdict: calls of a function g of module q, and of eval, exec and
   len, from the module scopes of m and q *)

MaxQueries == 2     \* calls walked in a run

Vx == [mScope |-> 1, m |-> 2, qScope |-> 3, q |-> 4]

VerdictFixture(mkind, qkind) ==
    <<NewScope(mkind, "m", <<>>), NewModule("m", 1),
      NewScope(qkind, "q", <<>>), NewModule("q", 3)>>

USER_FUNCTION == FunctionNamespace("q", <<"g">>)
BUILTIN_FUNCTIONS ==
    {FunctionNamespace("builtins", <<n>>) : n \in {"eval", "exec", "len"}}

\* the definitions of g
Definitions ==
    {FunctionDef(0, body) :
        body \in {<<"pass">>, <<"mark_own">>, <<"mark_caller">>, <<"raise">>,
                  <<"pass", "mark_caller">>, <<"mark_caller", "raise">>,
                  <<"call_self", "mark_caller">>}}
    \cup {FunctionDef(1, <<"pass">>)}

\* files holds function_definition_nodes
InitVerdict ==
    /\ \E mkind, qkind \in {"STATIC_MODULE", "DYNAMIC_MODULE"} :
           heap = VerdictFixture(mkind, qkind)
    /\ MODULES = [p \in {"m", "q"} |-> IF p = "m" THEN Vx.m ELSE Vx.q]
    /\ \E d \in Definitions :
           files = [k \in {CacheKey(USER_FUNCTION)} |-> d]
    /\ cache = EmptyMap
    /\ call = NoCall
    /\ res = NoRes
    /\ returned = {}
    /\ stack = <<>>
    /\ exc = ""
    /\ log = <<>>

\* the arguments of the calls: positional arguments and keyword names
Arguments(function) ==
    IF function = USER_FUNCTION
    THEN {<<<<>>, {}>>, <<<<Known>>, {}>>, <<<<>>, {"x"}>>}
    ELSE IF function.local_path = <<"len">>
    THEN {<<<<Known>>, {}>>}
    ELSE {<<positional, keywords>> :
             positional \in {<<Known>>, <<Known, Known>>,
                             <<Known, Starred_UNKNOWN>>},
             keywords \in {{}, {"globals"}}}

\* One call `function(*positional, **keywords)` walked at the module scope
\* caller; log keeps the calls with their verdicts.
Query(function, caller, positional, keywords) ==
    \E r \in {visit_Call(heap, cache, function, caller, positional, keywords,
                         files)} :
        /\ heap' = r.h
        /\ cache' = r.c
        /\ call' = [NoCall EXCEPT !.op = "visit_Call", !.obj = caller,
                                  !.name = CacheKey(function),
                                  !.path = positional, !.value = keywords]
        /\ res' = [st |-> r.st, obj |-> 0, grew |-> FALSE, result |-> r.result]
        /\ log' = Append(log, [key |-> CacheKey(function),
                               positional |-> positional,
                               keywords |-> keywords,
                               st |-> r.st, result |-> r.result])
        /\ UNCHANGED <<returned, MODULES, files, stack, exc>>

QueryUser ==
    /\ Len(log) < MaxQueries
    /\ \E caller \in {Vx.mScope, Vx.qScope},
          a \in Arguments(USER_FUNCTION) :
           Query(USER_FUNCTION, caller, a[1], a[2])

QueryBuiltin ==
    /\ Len(log) < MaxQueries
    /\ \E function \in BUILTIN_FUNCTIONS, caller \in {Vx.mScope, Vx.qScope} :
       \E a \in Arguments(function) :
           Query(function, caller, a[1], a[2])

NextVerdict == QueryUser \/ QueryBuiltin

SpecVerdict == InitVerdict /\ [][NextVerdict]_vars

\* C17: the first analysis of the user function being one without
\* arguments that returned, every later query for the function returns the
\* boolean it returned.
C17_VerdictMemoized ==
    \A i, j \in 1..Len(log) :
        (/\ i < j
         /\ log[i].key = CacheKey(USER_FUNCTION)
         /\ log[j].key = CacheKey(USER_FUNCTION)
         /\ \A k \in 1..(i - 1) : log[k].key # CacheKey(USER_FUNCTION)
         /\ log[i].positional = <<>> /\ log[i].keywords = {}
         /\ log[i].st = "ok" /\ log[j].st = "ok")
            => log[j].result = log[i].result

\* what the cache gives: a later query returns the entry the first
\* analysis left, which is False
C17_LaterQueriesReturnFalse ==
    \A i, j \in 1..Len(log) :
        (/\ i < j
         /\ log[i].key = CacheKey(USER_FUNCTION)
         /\ log[j].key = CacheKey(USER_FUNCTION)
         /\ \A k \in 1..(i - 1) : log[k].key # CacheKey(USER_FUNCTION)
         /\ log[i].positional = <<>> /\ log[i].keywords = {}
         /\ log[i].st = "ok" /\ log[j].st = "ok")
            => log[j].result = FALSE

\* the call just walked is a call of the user function that found no
\* verdict in the cache and returned one
Analysed ==
    /\ call'.op = "visit_Call"
    /\ call'.name = CacheKey(USER_FUNCTION)
    /\ call'.name \notin DOMAIN cache
    /\ res'.st = "ok"

\* C18: an analysis of the user function with no cached verdict judges it
\* to modify the global state of the caller exactly when the module scope of
\* the caller changes from STATIC_MODULE to DYNAMIC_MODULE during the walk
\* of the body, whatever the kind of the caller before the call and
\* whichever module the caller is.
C18_VerdictIsTransition ==
    [][Analysed =>
          (res'.result <=> (/\ heap[call'.obj].kind = "STATIC_MODULE"
                            /\ heap'[call'.obj].kind = "DYNAMIC_MODULE"))]_vars

\* C18 for a caller that is static before the call
C18_StaticCaller ==
    [][(Analysed /\ heap[call'.obj].kind = "STATIC_MODULE") =>
          (res'.result <=> heap'[call'.obj].kind = "DYNAMIC_MODULE")]_vars

\* what the code does for a caller that is dynamic before the call: the
\* verdict is True
C18_DynamicCaller ==
    [][(Analysed /\ heap[call'.obj].kind = "DYNAMIC_MODULE") =>
          res'.result]_vars

\* C19: after a call with a positional or a keyword argument the cache has
\* no entry for the function called, a user function or a builtin, whether
\* the call returned or raised.
C19_NoEntryAfterArguments ==
    [][(/\ call'.op = "visit_Call"
        /\ (call'.path # <<>> \/ call'.value # {}))
          => call'.name \notin DOMAIN cache']_vars

\* C19 for the user function, analysed with arguments, when the walk of its
\* body returns
C19_UserFunctionReturned ==
    [][(/\ call'.op = "visit_Call"
        /\ call'.name = CacheKey(USER_FUNCTION)
        /\ call'.name \notin DOMAIN cache
        /\ (call'.path # <<>> \/ call'.value # {})
        /\ res'.st = "ok")
          => call'.name \notin DOMAIN cache']_vars

\* C20: a call of eval or of exec is judged to modify the global state of
\* the caller exactly when fewer than two of its positional arguments are
\* known and it has no keyword globals, whatever calls came before.
C20_EvalExecRule ==
    [][(/\ call'.op = "visit_Call"
        /\ call'.name \in {<<"builtins", <<"eval">>>>,
                           <<"builtins", <<"exec">>>>})
          => /\ res'.st = "ok"
             /\ res'.result <=>
                   (/\ Cardinality({i \in 1..Len(call'.path) :
                                       call'.path[i] # Starred_UNKNOWN}) < 2
                    /\ "globals" \notin call'.value)]_vars

\* C20 for the first call of eval and the first call of exec
C20_FirstCall ==
    [][(/\ call'.op = "visit_Call"
        /\ call'.name \in {<<"builtins", <<"eval">>>>,
                           <<"builtins", <<"exec">>>>}
        /\ call'.name \notin DOMAIN cache)
          => /\ res'.st = "ok"
             /\ res'.result <=>
                   (/\ Cardinality({i \in 1..Len(call'.path) :
                                       call'.path[i] # Starred_UNKNOWN}) < 2
                    /\ "globals" \notin call'.value)]_vars

-----------------------------------------------------------------------------
(* scope_parser.py: the analysis of functions that call each other *)

\* A statement of a function body: pass; a call of
\* sys.modules[<unevaluated>].__dict__.update, which marks the module of the
\* caller; or a call of the function `name` of module q, with an argument
\* or without.
BodyNode(op, name, args) == [op |-> op, name |-> name, args |-> args]

\* cache[cache_key] = result = False, before the body is walked
ProvisionalEntry_none(c, key) == c

ProvisionalEntry(c, key) == MapSet(c, key, FALSE)

\* the frame of one call of _does_function_modify_caller_global_state whose
\* body is being walked: pc is the next statement of the body, result the
\* local variable result, done is set by the break of the loop
AnalysisFrame(function, caller, args) ==
    [function |-> function, caller |-> caller, args |-> args, pc |-> 1,
     result |-> FALSE, done |-> FALSE]

\* the statement visited returned: `if caller_module_scope.kind is
\* ScopeKind.DYNAMIC_MODULE: result = True; break`
LoopTest(h, frame) ==
    IF h[frame.caller].kind = "DYNAMIC_MODULE"
    THEN [frame EXCEPT !.result = TRUE, !.done = TRUE]
    ELSE [frame EXCEPT !.pc = @ + 1]

\* ScopeParser.visit_Call after the analysis returned result: the module
\* scope of the parser is marked when it is still static
MarkAfterCall(h, result, module_scope) ==
    IF result /\ h[module_scope].kind = "STATIC_MODULE"
    THEN Scope_mark_module_as_dynamic(h, module_scope).h
    ELSE h

(* SpecRecur: the functions f and g of module q call each other; their
   analysis is started by calls from the module scopes of m and q *)

MaxRecurQueries == 2    \* calls walked at module level in a run
MaxFrames == 3           \* frames the model can hold, one more than functions

RecurNames == {"f", "g"}

RecurStatements ==
    {BodyNode("pass", "", FALSE), BodyNode("mark_caller", "", FALSE)}
        \cup {BodyNode("call", n, a) : n \in RecurNames, a \in BOOLEAN}

\* the bodies of f start with a call; the bodies of g are any
RecurBodies(n) ==
    IF n = "f"
    THEN {<<BodyNode("call", c, a), s>> :
             c \in RecurNames, a \in BOOLEAN, s \in RecurStatements}
    ELSE {<<s>> : s \in RecurStatements}
             \cup {<<BodyNode("call", "f", a), BodyNode("mark_caller", "", FALSE)>> :
                      a \in BOOLEAN}

InitRecur ==
    /\ \E mkind \in {"STATIC_MODULE", "DYNAMIC_MODULE"} :
           heap = VerdictFixture(mkind, "STATIC_MODULE")
    /\ MODULES = [p \in {"m", "q"} |-> IF p = "m" THEN Vx.m ELSE Vx.q]
    /\ \E bf \in RecurBodies("f"), bg \in RecurBodies("g") :
           files = [k \in {<<"q", <<n>>>> : n \in RecurNames} |->
                       FunctionDef(0, IF k[2] = <<"f">> THEN bf ELSE bg)]
    /\ cache = EmptyMap
    /\ call = NoCall
    /\ res = NoRes
    /\ returned = {}
    /\ stack = <<>>
    /\ exc = ""
    /\ log = <<>>

TopFrame == stack[Len(stack)]

\* the module scope of the parser that walks the body of a frame
OwnScope(frame) == heap[MODULES[frame.function.module_path]].scope

Walked(frame) == frame.done \/ frame.pc > Len(files[CacheKey(frame.function)].body)

\* what a step records: the query made, whether it was answered from the
\* cache (hit), whether its function was under evaluation, and the answer
Queried(function, caller, hit, result) ==
    /\ call' = [NoCall EXCEPT !.op = "query", !.obj = caller,
                              !.name = CacheKey(function),
                              !.tick = 1 - call.tick]
    /\ res' = [st |-> "ok", obj |-> 0, grew |-> ~hit, result |-> result,
               reentrant |-> \E i \in DOMAIN stack :
                                 stack[i].function = function]

NotQueried ==
    /\ call' = [NoCall EXCEPT !.op = "walk", !.tick = 1 - call.tick]
    /\ res' = NoRes

\* visit_Call at module level: the cache answers, or the walk of the body
\* starts with the provisional entry
RecurQuery ==
    /\ stack = <<>>
    /\ Len(log) < MaxRecurQueries
    /\ \E n \in RecurNames, caller \in {Vx.mScope, Vx.qScope}, a \in BOOLEAN :
       LET function == FunctionNamespace("q", <<n>>)
           key == CacheKey(function)
       IN  IF key \in DOMAIN cache
           THEN /\ heap' = MarkAfterCall(heap, cache[key], caller)
                /\ log' = Append(log, [key |-> key, result |-> cache[key]])
                /\ Queried(function, caller, TRUE, cache[key])
                /\ UNCHANGED <<cache, stack>>
           ELSE /\ cache' = ProvisionalEntry(cache, key)
                /\ stack' = <<AnalysisFrame(function, caller, a)>>
                /\ Queried(function, caller, FALSE, FALSE)
                /\ UNCHANGED <<heap, log>>
    /\ UNCHANGED <<returned, MODULES, files, exc>>

\* function_body_parser.visit of a statement that is not a call of f or g
RecurStatement ==
    /\ stack # <<>>
    /\ ~Walked(TopFrame)
    /\ \E node \in {files[CacheKey(TopFrame.function)].body[TopFrame.pc]} :
        /\ node.op # "call"
        /\ \E h \in {IF node.op = "mark_caller"
                     THEN visit_Call_dict_update(heap, TopFrame.caller).h
                     ELSE heap} :
            /\ heap' = h
            /\ stack' = [stack EXCEPT ![Len(stack)] = LoopTest(h, @)]
    /\ NotQueried
    /\ UNCHANGED <<cache, log, returned, MODULES, files, exc>>

\* function_body_parser.visit of a call of f or g: the caller of the nested
\* analysis is the module scope of the parser
RecurCall ==
    /\ stack # <<>>
    /\ ~Walked(TopFrame)
    /\ \E node \in {files[CacheKey(TopFrame.function)].body[TopFrame.pc]} :
        /\ node.op = "call"
        /\ LET function == FunctionNamespace("q", <<node.name>>)
               key == CacheKey(function)
           IN  IF key \in DOMAIN cache
               THEN \E h \in {MarkAfterCall(heap, cache[key],
                                            OwnScope(TopFrame))} :
                        /\ heap' = h
                        /\ stack' = [stack EXCEPT
                                        ![Len(stack)] = LoopTest(h, @)]
                        /\ Queried(function, OwnScope(TopFrame), TRUE,
                                   cache[key])
                        /\ UNCHANGED cache
               ELSE /\ Len(stack) < MaxFrames
                    /\ cache' = ProvisionalEntry(cache, key)
                    /\ stack' = Append(stack,
                                       AnalysisFrame(function,
                                                     OwnScope(TopFrame),
                                                     node.args))
                    /\ Queried(function, OwnScope(TopFrame), FALSE, FALSE)
                    /\ UNCHANGED heap
    /\ UNCHANGED <<log, returned, MODULES, files, exc>>

\* the loop is over: the entry is deleted when the call had arguments, the
\* result goes to the visit_Call that asked
RecurReturn ==
    /\ stack # <<>>
    /\ Walked(TopFrame)
    /\ cache' = IF TopFrame.args
                THEN MapDel(cache, CacheKey(TopFrame.function))
                ELSE cache
    /\ \E h \in {MarkAfterCall(heap, TopFrame.result,
                               IF Len(stack) = 1
                               THEN TopFrame.caller
                               ELSE OwnScope(stack[Len(stack) - 1]))} :
        /\ heap' = h
        /\ stack' = IF Len(stack) = 1
                    THEN <<>>
                    ELSE [SubSeq(stack, 1, Len(stack) - 1) EXCEPT
                             ![Len(stack) - 1] = LoopTest(h, @)]
    /\ log' = IF Len(stack) = 1
              THEN Append(log, [key |-> CacheKey(TopFrame.function),
                                result |-> TopFrame.result])
              ELSE log
    /\ NotQueried
    /\ UNCHANGED <<returned, MODULES, files, exc>>

AnalysisStep == RecurStatement \/ RecurCall \/ RecurReturn

NextRecur == RecurQuery \/ RecurStatement \/ RecurCall \/ RecurReturn

SpecRecur == InitRecur /\ [][NextRecur]_vars

\* a walk that has started goes on: nothing else runs
SpecRecurFair == SpecRecur /\ WF_vars(AnalysisStep)

\* C21: while the body of a function is walked the cache holds False for
\* it, so a query for a function under evaluation is answered False at once
\* and starts no walk, no function is walked twice at a time, and every
\* analysis that was started comes to its end.
C21_RecursionTerminates ==
    /\ [](\A i \in DOMAIN stack :
              /\ CacheKey(stack[i].function) \in DOMAIN cache
              /\ cache[CacheKey(stack[i].function)] = FALSE
              /\ \A j \in DOMAIN stack :
                     i # j => stack[i].function # stack[j].function)
    /\ [][(call'.op = "query" /\ res'.reentrant) =>
             (~res'.grew /\ ~res'.result /\ Len(stack') = Len(stack))]_vars
    /\ (stack # <<>>) ~> (stack = <<>>)

\* g, called from f with an argument, called f back and was answered at
\* once; both walks are over
C21_Witness ==
    /\ stack = <<>>
    /\ Len(log) = 1
    /\ log[1].key = <<"q", <<"f">>>>
    /\ files[<<"q", <<"f">>>>].body[1] = BodyNode("call", "g", TRUE)
    /\ files[<<"q", <<"g">>>>].body[1].op = "call"
    /\ files[<<"q", <<"g">>>>].body[1].name = "f"
    /\ <<"q", <<"g">>>> \notin DOMAIN cache

-----------------------------------------------------------------------------
(* SpecBases: module m defines the classes A and B, then a class C that
   derives from them; attributes are looked up on the three *)

BaseBodies == {<<>>, <<"f">>, <<"g">>, <<"f", "g">>}

DerivedBases ==
    {<<NameExpr("A"), NameExpr("B")>>, <<NameExpr("B"), NameExpr("A")>>,
     <<NameExpr("A")>>, <<NameExpr("B")>>}

\* the heap after `class A: bodyA` and `class B: bodyB` at the top of m
BasesFixture(bodyA, bodyB) ==
    visit_ClassDef(
        visit_ClassDef(ClassFixture, 1, <<1, 2>>, 2, "A", <<>>, bodyA).h,
        1, <<1, 2>>, 2, "B", <<>>, bodyB).h

InitBases ==
    /\ \E bodyA, bodyB \in BaseBodies : heap = BasesFixture(bodyA, bodyB)
    /\ call = NoCall
    /\ res = NoRes
    /\ returned = {}
    /\ IdleLoader

\* visit_ClassDef of `class C(*bases): body`; log keeps the names of the
\* bases as the statement declares them
VisitDerivedClassDef ==
    /\ log = <<>>
    /\ \E bases \in DerivedBases, body \in {<<>>, <<"f">>} :
        /\ Step("visit_ClassDef", 1, "C",
                [i \in 1..Len(bases) |-> bases[i].id], Len(body), MISSING,
                visit_ClassDef(heap, 1, <<1, 2>>, 2, "C", bases, body))
        /\ log' = <<[i \in 1..Len(bases) |-> bases[i].id]>>
    /\ UNCHANGED <<MODULES, files, stack, exc, cache>>

BasesGetAttribute ==
    /\ \E c \in Classes, n \in Names :
        /\ Finds(heap, c, n)
        /\ Do_get_attribute(c, n)
    /\ UNCHANGED loadVars

NextBases == VisitDerivedClassDef \/ BasesGetAttribute

SpecBases == InitBases /\ [][NextBases]_vars

\* the class object that the name id of module m is bound to
ClassNamed(id) == heap[1].objects[id]

\* the step is get_attribute(n) on the class C declared with two bases that
\* both bind n in their bodies, the body of C not binding n
TwoBasesBind ==
    /\ call'.op = "get_attribute"
    /\ log # <<>>
    /\ Len(log[1]) = 2
    /\ call'.obj = ClassNamed("C")
    /\ call'.name \notin DOMAIN heap[heap[call'.obj].scope].objects
    /\ \A i \in 1..2 :
         call'.name \in DOMAIN heap[heap[ClassNamed(log[1][i])].scope].objects

\* C22: get_attribute(n) on the class of `class C(X, Y)`, X and Y binding n
\* and the body of C not, returns the object X binds n to, X being the base
\* declared first.
C22_LeftmostBaseFirst ==
    [][TwoBasesBind =>
          /\ res'.st = "ok"
          /\ res'.obj = heap[heap[ClassNamed(log[1][1])].scope].objects[call'.name]]_vars

\* what the code returns: the binding of the base declared last
C22_LastBaseFirst ==
    [][TwoBasesBind =>
          /\ res'.st = "ok"
          /\ res'.obj = heap[heap[ClassNamed(log[1][2])].scope].objects[call'.name]]_vars

\* such a lookup was made
C22_Looked ==
    /\ call.op = "get_attribute"
    /\ log # <<>>
    /\ Len(log[1]) = 2
    /\ call.obj = ClassNamed("C")
    /\ call.name \notin DOMAIN heap[heap[call.obj].scope].objects
    /\ \A i \in 1..2 :
         call.name \in DOMAIN heap[heap[ClassNamed(log[1][i])].scope].objects

-----------------------------------------------------------------------------
(* SpecMissing: set_value and assignments on one object of every variant *)

Mx == [scope |-> 1, module |-> 2, classScope |-> 3, class |-> 4,
       instance |-> 5, routine |-> 6, unknown |-> 7]

\* the scope of module m and its Module, a class of m with its scope, an
\* instance of the class, a routine and an unknown object
MissingFixture ==
    <<NewScope("STATIC_MODULE", "m", <<>>), NewModule("m", 1),
      NewScope("CLASS", "m", <<"C">>),
      NewClass("m", <<"C">>, <<>>, 3, 0),
      NewRecord("PlainObject", "INSTANCE", "m", <<"c">>, <<4>>, 0, 0),
      NewRoutine("m", <<"r">>),
      NewUnknownObject("m", <<"u">>)>>

\* what set_value is called on
ValueHolders ==
    {Mx.scope, Mx.module, Mx.class, Mx.instance, Mx.routine, Mx.unknown}

InitMissing ==
    /\ heap = MissingFixture
    /\ call = NoCall
    /\ res = NoRes
    /\ returned = {}
    /\ IdleLoader

MissingSetObject ==
    /\ \E o \in ValueHolders : Do_set_attribute(o, "f", Mx.unknown)
    /\ Bounded(7)

MissingSetValue ==
    /\ \E o \in ValueHolders, v \in ConcreteValues \cup {MISSING} :
           Do_set_value(o, "f", v)
    /\ Bounded(7)

\* `f = <value node>` walked at the top of m: v is the value of the node,
\* MISSING when its evaluation raised an evaluation exception
MissingAssign ==
    /\ \E v \in ConcreteValues \cup {MISSING} :
           Step("assign", Mx.scope, "f", <<>>, 0, v,
                process_assignment(heap, Mx.scope, <<Mx.scope>>, "f",
                                   OtherExpr, v))
    /\ Bounded(7)

NextMissing == MissingSetObject \/ MissingSetValue \/ MissingAssign

SpecMissing == InitMissing /\ [][NextMissing]_vars

\* the step writes MISSING for a name that has a concrete value
WritesMissing ==
    /\ call'.op \in {"set_value", "assign"}
    /\ call'.value = MISSING
    /\ call'.name \in DOMAIN Values(heap, call'.obj)
    /\ Values(heap, call'.obj)[call'.name] # MISSING

\* after the step the name has no value: it is no key of the value table,
\* get_value fails and the first mapping of as_object() does not hold it
ValueDeleted ==
    /\ res'.st = "ok"
    /\ call'.name \notin DOMAIN Values(heap', call'.obj)
    /\ Scope_get_value(heap', Holder(heap', call'.obj), call'.name).st
           = "KeyError"
    /\ ~MappingChain_contains(<<as_object(heap', call'.obj)[1]>>, call'.name)

NoMissingStored(h) ==
    \A o \in DOMAIN h : \A n \in DOMAIN h[o].values : h[o].values[n] # MISSING

\* C23: writing MISSING for a name that has a concrete value, by an
\* assignment whose value node could not be evaluated or by set_value on a
\* Scope, Class, PlainObject, Routine, Module or UnknownObject, deletes the
\* value, and no value table ever holds MISSING.
C23_MissingDeletes ==
    [][(WritesMissing => ValueDeleted) /\ NoMissingStored(heap')]_vars

\* C23 for every variant but Class
C23_OtherVariants ==
    [][(WritesMissing /\ heap[call'.obj].cls # "Class") => ValueDeleted]_vars

\* what Class.set_value does: the value table holds MISSING for the name
C23_ClassStoresMissing ==
    [][(WritesMissing /\ heap[call'.obj].cls = "Class" /\ res'.st = "ok")
          => /\ call'.name \in DOMAIN heap'[call'.obj].values
             /\ heap'[call'.obj].values[call'.name] = MISSING]_vars

-----------------------------------------------------------------------------
(* SpecStrict: strict_get_object on module scopes that include modules, a
   class of unknown kind and an unknown object *)

Sx == [cScope |-> 8, c |-> 9, base |-> 10, metaScope |-> 11, meta |-> 12]

\* ScopeFixture, then a class c whose base is an unknown object and whose
\* metaclass meta binds g
StrictFixture(kind) ==
    ScopeFixture(kind)
    \o <<NewScope("UNKNOWN_CLASS", "pkg", <<"c">>),
         NewClass("pkg", <<"c">>, <<10>>, 8, 12),
         NewUnknownObject("pkg", <<"c", "__bases___0">>),
         [NewScope("METACLASS", "pkg", <<"meta">>) EXCEPT
             !.objects = MapSet(EmptyMap, "g", Fx.y)],
         NewClass("pkg", <<"meta">>, <<>>, 11, 0)>>

MaxSynthesized == 1     \* objects a run adds to the fixture

InitStrict ==
    /\ \E kind, pkgkind \in {"STATIC_MODULE", "DYNAMIC_MODULE"} :
           heap = [StrictFixture(kind) EXCEPT ![Fx.pkgScope].kind = pkgkind]
    /\ call = NoCall
    /\ res = NoRes
    /\ returned = {}
    /\ IdleLoader

StrictBounded ==
    /\ Len(heap') <= Len(StrictFixture("STATIC_MODULE")) + MaxSynthesized
    /\ UNCHANGED loadVars

StrictGetObject ==
    /\ \E n \in Names :
           Step("strict_get_object", Fx.scope, n, <<>>, 0, MISSING,
                Scope_strict_get_object(heap, Fx.scope, n))
    /\ StrictBounded

StrictScopeGetObject ==
    /\ \E n \in Names : Do_get_object(Fx.scope, n)
    /\ StrictBounded

\* `from <module> import *` in the scope under test, the registry entry of
\* <module> being the Module of pkg or the class c, and `from q import *`
\* in pkg
StrictStarImport ==
    /\ \E i \in {<<Fx.scope, Fx.pkg>>, <<Fx.scope, Sx.c>>,
                  <<Fx.pkgScope, Fx.q>>} :
           Step("star_import", i[1], "", <<>>, i[2], MISSING,
                visit_ImportFrom_star(heap, i[1], i[2]))
    /\ StrictBounded

StrictSetAttribute ==
    /\ \/ Do_set_attribute(Fx.pkg, "f", Fx.x)
       \/ Do_set_attribute(Fx.q, "f", Fx.y)
    /\ StrictBounded

NextStrict ==
    \/ StrictGetObject
    \/ StrictScopeGetObject
    \/ StrictStarImport
    \/ StrictSetAttribute

SpecStrict == InitStrict /\ [][NextStrict]_vars

C24_WitnessDelegated ==
    /\ call.op = "strict_get_object"
    /\ call.name = "g"
    /\ res.st = "ok"
    /\ res.obj = Fx.y

-----------------------------------------------------------------------------
(* SpecLookup: lookup_object_by_name through the scope of a class or of a
   function, the scope of its module m and the scope of builtins *)

Nx == [own |-> 1, mScope |-> 2, builtinsScope |-> 3, pkgScope |-> 4,
       pkg |-> 5, x |-> 6]

\* m can star-import the module pkg; x is an object to bind
LookupFixture(ownkind, mkind, pkgkind) ==
    <<NewScope(ownkind, "m", <<"C">>), NewScope(mkind, "m", <<>>),
      NewScope("BUILTIN_MODULE", "builtins", <<>>),
      NewScope(pkgkind, "pkg", <<>>), NewModule("pkg", 4),
      NewUnknownObject("m", <<"x">>)>>

\* the scope and its parent scopes, with the scope of builtins or without
ScopeChains == {<<Nx.own, Nx.mScope>>, <<Nx.own, Nx.mScope, Nx.builtinsScope>>}

InitLookup ==
    /\ \E ownkind \in {"FUNCTION", "UNKNOWN_CLASS"},
          mkind, pkgkind \in {"STATIC_MODULE", "DYNAMIC_MODULE"} :
           heap = LookupFixture(ownkind, mkind, pkgkind)
    /\ call = NoCall
    /\ res = NoRes
    /\ returned = {}
    /\ IdleLoader

LookupBounded ==
    /\ Len(heap') <= Len(LookupFixture("FUNCTION", "STATIC_MODULE",
                                       "STATIC_MODULE")) + MaxSynthesized
    /\ UNCHANGED loadVars

LookupByName ==
    /\ \E n \in Names, scopes \in ScopeChains :
           Step("lookup_object_by_name", scopes[1], n, scopes, 0, MISSING,
                lookup_object_by_name(heap, n, scopes))
    /\ LookupBounded

\* a statement binds f in one of the scopes or in pkg
LookupSetObject ==
    /\ \E s \in {Nx.own, Nx.mScope, Nx.builtinsScope, Nx.pkgScope} :
           Do_set_attribute(s, "f", Nx.x)
    /\ LookupBounded

\* `from pkg import *` at the top of m
LookupStarImport ==
    /\ Step("star_import", Nx.mScope, "", <<>>, Nx.pkg, MISSING,
            visit_ImportFrom_star(heap, Nx.mScope, Nx.pkg))
    /\ LookupBounded

NextLookup == LookupByName \/ LookupSetObject \/ LookupStarImport

SpecLookup == InitLookup /\ [][NextLookup]_vars

\* the scopes of the chain that bind n, in their table or in an included
\* object, and those whose get_object answers
BindingScopes(h, scopes, n) ==
    {i \in 1..Len(scopes) : Scope_strict_get_object(h, scopes[i], n).st = "ok"}

AnsweringScopes(h, scopes, n) ==
    {i \in 1..Len(scopes) : Scope_get_object(h, scopes[i], n).st = "ok"}

First(S) == CHOOSE i \in S : \A j \in S : i <= j

\* C25: a name that a scope of the chain binds is answered by the first
\* such scope and nothing is synthesized; a name that none binds is
\* answered by get_object of the first scope for which it succeeds; a name
\* that no scope answers raises NameError.
C25_ChainLookup ==
    [][call'.op = "lookup_object_by_name" =>
          LET scopes == call'.path
              n == call'.name
              binding == BindingScopes(heap, scopes, n)
              answering == AnsweringScopes(heap, scopes, n)
          IN  IF binding # {}
              THEN /\ res'.st = "ok"
                   /\ res'.obj = Scope_strict_get_object(
                                     heap, scopes[First(binding)], n).obj
                   /\ heap' = heap
              ELSE IF answering # {}
              THEN /\ res'.st = "ok"
                   /\ res'.obj = Scope_get_object(
                                     heap, scopes[First(answering)], n).obj
                   /\ heap' = Scope_get_object(
                                  heap, scopes[First(answering)], n).h
              ELSE /\ res'.st = "NameError"
                   /\ heap' = heap]_vars

\* f is bound in pkg only, which m star-imports: the lookup from a class
\* scope of unknown kind returned the binding of pkg and created nothing
C25_Witness ==
    /\ call.op = "lookup_object_by_name"
    /\ call.name = "f"
    /\ heap[Nx.own].kind = "UNKNOWN_CLASS"
    /\ "f" \notin DOMAIN heap[Nx.own].objects
    /\ "f" \notin DOMAIN heap[Nx.mScope].objects
    /\ "f" \in DOMAIN heap[Nx.pkgScope].objects
    /\ res.st = "ok"
    /\ res.obj = Nx.x
    /\ Len(heap) = 6

\* no scope bound g: it was synthesized in the first scope that synthesizes
C25_WitnessSynthesized ==
    /\ call.op = "lookup_object_by_name"
    /\ call.name = "g"
    /\ heap[Nx.own].kind = "FUNCTION"
    /\ res.st = "ok"
    /\ res.grew

\* no scope answered
C25_WitnessNameError ==
    /\ call.op = "lookup_object_by_name"
    /\ res.st = "NameError"

-----------------------------------------------------------------------------
(* SpecGuard: the branches of an if statement whose test is not evaluated *)

\* the step walks `if <test that cannot be evaluated>: ... else: ...` whose
\* branches are made of the statements `f = 1` and `g = f` and hold `f = 1`
UnevaluatedIf ==
    /\ call'.op = "visit_If"
    /\ \A i \in DOMAIN call'.path : call'.path[i] \in {"Assign", "AssignName"}
    /\ \E i \in DOMAIN call'.path : call'.path[i] = "Assign"

\* C26: after the walk of an if statement whose test raised an evaluation
\* exception, every statement of the body and of the orelse was visited: the
\* name f that `f = 1` binds is bound, also when another statement of a
\* branch raised an evaluation exception.
C26_BothBranchesVisited ==
    [][UnevaluatedIf =>
          (res'.st = "ok" /\ "f" \in DOMAIN heap'[Wx.scope].objects)]_vars

\* C26 when no statement of the branches raises
C26_NoStatementRaises ==
    [][(UnevaluatedIf /\ exc' = "ok") =>
          (res'.st = "ok" /\ "f" \in DOMAIN heap'[Wx.scope].objects)]_vars

\* what the code does when the first statement raises an evaluation
\* exception: the walk of both branches ends there
C26_EndsAtFirstFailure ==
    [][(UnevaluatedIf /\ call'.path[1] = "AssignName"
           /\ "f" \notin DOMAIN heap[Wx.scope].objects)
          => (res'.st = "ok" /\ exc' = "NameError" /\ heap' = heap)]_vars

-----------------------------------------------------------------------------
(* SpecHandler: try statements of module m with one handler
   `except T as e`, and plain statements between them *)

\* bodies of the try: `import n` raises ModuleNotFoundError, `g = f` raises
\* NameError while f is not bound
TryBodies ==
    {<<Stmt("Import", "n")>>, <<Stmt("AssignName", "f")>>,
     <<Stmt("Assign", "f"), Stmt("Import", "n")>>, <<Stmt("Assign", "f")>>}

\* bodies of the handler: `g = e` reads the name of the exception
HandlerBodies ==
    {<<>>, <<Stmt("AssignName", "e")>>, <<Stmt("Assign", "f")>>,
     <<Stmt("Import", "n")>>, <<Stmt("AssignName", "f")>>,
     <<Stmt("AssignName", "e"), Stmt("Import", "n")>>}

\* the statements of a body, each as its kind and the name it reads or binds
Shown(body) ==
    [i \in 1..(2 * Len(body)) |->
        IF i % 2 = 1 THEN body[(i + 1) \div 2].kind ELSE body[i \div 2].arg]

\* `try: body except T as e: hbody`; exc' is what the body raised
HandlerTry ==
    /\ Len(log) < MaxGuarded
    /\ \E body \in TryBodies, T \in ExceptionNames, hbody \in HandlerBodies :
        /\ Step("visit_Try", Wx.scope, T, Shown(hbody), 0, MISSING,
                visit_Try(heap, Wx.scope, WalkScopes, Wx.q, body,
                          <<Handler(NameExpr(T), "e", hbody)>>))
        /\ exc' = Inside(body)
    /\ log' = Append(log, "visit_Try")
    /\ UNCHANGED <<MODULES, files, stack, cache>>

\* a statement of m outside any block
HandlerPlain ==
    /\ \E a \in {Stmt("Assign", "f"), Stmt("Assign", "e")} :
        Guarded("visit", Kinds(<<a>>), Inside(<<a>>),
                visit_statement(heap, Wx.scope, WalkScopes, Wx.q, a))

NextHandler == HandlerTry \/ HandlerPlain

SpecHandler == InitGuard /\ [][NextHandler]_vars

\* the step walks a try statement whose body raised an exception that the
\* handler `except T as e` matches
HandlerMatched ==
    /\ call'.op = "visit_Try"
    /\ exc' # "ok"
    /\ Matches(heap, Gx[call'.name], exc')

\* o is an INSTANCE of the class T of builtins, made at the path of e
InstanceOf(h, o, T) ==
    /\ h[o].cls = "PlainObject"
    /\ h[o].kind = "INSTANCE"
    /\ h[o].included = <<Gx[T]>>
    /\ h[o].local_path = <<"e">>

\* while the handler body is visited e is bound to an instance of T: the
\* statement `g = e` of the handler binds g to it
BoundWhileVisited ==
    (call'.path # <<>> /\ SubSeq(call'.path, 1, 2) = <<"AssignName", "e">>)
        => /\ "g" \in DOMAIN heap'[Wx.scope].objects
           /\ InstanceOf(heap', heap'[Wx.scope].objects["g"], call'.name)

\* C27: the body of a try raising and `except T as e` matching, e is bound
\* to an INSTANCE of T while the handler body is visited and is not bound
\* in the scope once the try statement is walked, whether the handler body
\* completed or raised.
C27_TransientBinding ==
    [][HandlerMatched =>
          /\ BoundWhileVisited
          /\ "e" \notin DOMAIN heap'[Wx.scope].objects]_vars

\* C27 for a handler body that completes
C27_HandlerCompleted ==
    [][(HandlerMatched /\ res'.st = "ok") =>
          /\ BoundWhileVisited
          /\ "e" \notin DOMAIN heap'[Wx.scope].objects]_vars

\* what the code does when the handler body raises: e stays bound to the
\* instance
C27_HandlerRaised ==
    [][(HandlerMatched /\ res'.st # "ok") =>
          /\ BoundWhileVisited
          /\ "e" \in DOMAIN heap'[Wx.scope].objects
          /\ InstanceOf(heap', heap'[Wx.scope].objects["e"], call'.name)]_vars

\* a handler body raised
C27_Raised ==
    /\ call.op = "visit_Try"
    /\ exc = "ModuleNotFoundError"
    /\ call.name = "ImportError"
    /\ res.st = "ModuleNotFoundError"
    /\ call.path = <<"AssignName", "e", "Import", "n">>
    /\ "e" \in DOMAIN heap[Wx.scope].objects
    /\ heap[Wx.scope].objects["e"] = heap[Wx.scope].objects["g"]

-----------------------------------------------------------------------------
(* SpecMethod: attribute lookup that reaches routines through an instance,
   a base class or a metaclass *)

\* the metaclass M, the class A, the class B with base A, the routines r1
\* and r2, an instance x of B and an instance y of A, of module m
Mt == [scope |-> 1, MScope |-> 2, M |-> 3, AScope |-> 4, A |-> 5,
       BScope |-> 6, B |-> 7, r1 |-> 8, r2 |-> 9, x |-> 10, y |-> 11]

MethodFixture(metaA, metaB) ==
    <<NewScope("STATIC_MODULE", "m", <<>>),
      NewScope("METACLASS", "m", <<"M">>),
      NewClass("m", <<"M">>, <<>>, 2, 0),
      NewScope("CLASS", "m", <<"A">>),
      NewClass("m", <<"A">>, <<>>, 4, metaA),
      NewScope("CLASS", "m", <<"B">>),
      NewClass("m", <<"B">>, <<5>>, 6, metaB),
      NewRoutine("m", <<"A", "f">>),
      NewRoutine("m", <<"M", "g">>),
      [NewRecord("PlainObject", "INSTANCE", "m", <<"x">>, <<7>>, 0, 0)
          EXCEPT !.scope = 0],
      [NewRecord("PlainObject", "INSTANCE", "m", <<"y">>, <<5>>, 0, 0)
          EXCEPT !.scope = 0]>>

MaxMethodCalls == 2     \* calls made in a run

\* what a name can be bound to: a routine, or an object that is none
MethodTargets(n) == {IF n = "f" THEN Mt.r1 ELSE Mt.r2, Mt.y}

\* the tables a class body binds a name in
MethodTables == {Mt.M, Mt.AScope, Mt.A, Mt.BScope}

InitMethod ==
    /\ \E metaA \in {0, Mt.M}, metaB \in {0, Mt.M} :
       \E tf \in MethodTables, tg \in MethodTables :
       \E of \in MethodTargets("f"), og \in MethodTargets("g") :
           heap = SetAttribute(SetAttribute(MethodFixture(metaA, metaB),
                                            tf, "f", of).h,
                               tg, "g", og).h
    /\ call = NoCall
    /\ res = NoRes
    /\ returned = {}
    /\ IdleLoader

MethodCalled ==
    /\ Len(log) < MaxMethodCalls
    /\ log' = Append(log, call'.op)
    /\ UNCHANGED <<MODULES, files, stack, exc, cache>>

MethodGetAttribute ==
    /\ \E o \in {Mt.M, Mt.A, Mt.B, Mt.x, Mt.y}, n \in Names :
        /\ Do_get_attribute(o, n)
        /\ MethodCalled

MethodSetAttribute ==
    /\ \E o \in {Mt.B, Mt.x}, n \in Names :
       \E t \in MethodTargets(n) :
        /\ Do_set_attribute(o, n, t)
        /\ MethodCalled

NextMethod == MethodGetAttribute \/ MethodSetAttribute

SpecMethod == InitMethod /\ [][NextMethod]_vars

\* the binding of n in the attributes of class c or in its scope, else 0
OwnBinding(h, c, n) ==
    IF n \in DOMAIN h[c].objects
    THEN h[c].objects[n]
    ELSE IF n \in DOMAIN h[h[c].scope].objects
         THEN h[h[c].scope].objects[n]
         ELSE 0

\* the binding class c reaches through its base classes only, else 0
BaseBinding(h, c, n) ==
    IF Len(h[c].included) > 0 THEN OwnBinding(h, h[c].included[1], n) ELSE 0

\* the binding class c reaches through its metaclass only, else 0
MetaclassBinding(h, c, n) ==
    IF h[c].metaclass > 0 THEN OwnBinding(h, h[c].metaclass, n) ELSE 0

\* the step returned a new bound method of routine r and receiver o
ReturnsBound(r, o) ==
    /\ res'.st = "ok"
    /\ res'.obj > Len(heap)
    /\ heap'[res'.obj].cls = "Method"
    /\ heap'[res'.obj].routine = r
    /\ heap'[res'.obj].instance = o
    /\ heap'[res'.obj].objects["__self__"] = o
    /\ heap'[res'.obj].objects["__func__"] = r

\* the step returned the object r itself and made no object
ReturnsIdentical(r) ==
    /\ res'.st = "ok"
    /\ res'.obj = r
    /\ heap' = heap

IsRoutine(h, o) == o > 0 /\ KindOf(h, o) = "ROUTINE"

C28_WitnessMetaclass ==
    /\ call.op = "get_attribute"
    /\ call.obj = Mt.A
    /\ call.name = "g"
    /\ res.st = "ok"
    /\ res.obj = Len(heap)
    /\ heap[res.obj].cls = "Method"
    /\ heap[res.obj].routine = Mt.r2
    /\ heap[res.obj].instance = Mt.A
    /\ OwnBinding(heap, Mt.M, "g") = Mt.r2

\* the class B was asked for f, which its base A binds to the routine r1,
\* and got r1
C28_WitnessBase ==
    /\ call.op = "get_attribute"
    /\ call.obj = Mt.B
    /\ call.name = "f"
    /\ res.st = "ok"
    /\ res.obj = Mt.r1
    /\ ~res.grew
    /\ OwnBinding(heap, Mt.B, "f") = 0
    /\ OwnBinding(heap, Mt.A, "f") = Mt.r1

-----------------------------------------------------------------------------
(* SpecRelative: relative imports in the modules of a package tree; module
   paths are sequences of components *)

MaxLevel == 4       \* dots of a relative import
MaxImports == 2     \* import statements walked in a run

\* a/__init__.py, a/b/__init__.py, a/b/c.py or a/b/c/__init__.py, x.py,
\* a/x.py, a/b/x.py
TreePaths ==
    <<<<"a">>, <<"a", "b">>, <<"a", "b", "c">>, <<"x">>, <<"a", "x">>,
      <<"a", "b", "x">>>>

\* the scope and the Module object of TreePaths[i], and the object its
\* scope binds f to
TreeScope(i) == 3 * i - 2
TreeModule(i) == 3 * i - 1
TreeObject(i) == 3 * i

TreeFixture ==
    [k \in 1..(3 * Len(TreePaths)) |->
        CASE k % 3 = 1 ->
                 [NewScope("STATIC_MODULE", TreePaths[(k + 2) \div 3], <<>>)
                     EXCEPT !.objects = [x \in {"f"} |-> k + 2]]
          [] k % 3 = 2 -> NewModule(TreePaths[(k + 1) \div 3], k - 1)
          [] OTHER -> [NewRecord("PlainObject", "INSTANCE",
                                 TreePaths[k \div 3], <<"f">>, <<>>, 0, 0)
                          EXCEPT !.scope = 0]]

\* list[:stop] of Python for an integer stop
SliceTo(seq, stop) ==
    IF stop >= 0
    THEN SubSeq(seq, 1, IF stop < Len(seq) THEN stop ELSE Len(seq))
    ELSE SubSeq(seq, 1, IF Len(seq) + stop > 0 THEN Len(seq) + stop ELSE 0)

\* `depth = (len(components) + is_package - level) or None;
\*  components = list(module_path.components)[:depth]`
AnchorComponents(components, is_package, level) ==
    LET depth == Len(components) + (IF is_package THEN 1 ELSE 0) - level
    IN  IF depth = 0 THEN components ELSE SliceTo(components, depth)

\* resolve_module_path when every module that has a file is registered:
\* the path is loaded, else its last component is asked of the module
\* before it
ResolveRegistered(h, M, path) ==
    IF path \in DOMAIN M
    THEN Outcome("ok", M[path], h)
    ELSE IF Len(path) > 1 /\ Front(path) \in DOMAIN M
         THEN Bind(GetAttribute(h, M[Front(path)], Last(path)), LAMBDA r :
                   IF r.st = "KeyError"
                   THEN Outcome("ModuleNotFoundError", 0, r.h)
                   ELSE r)
         ELSE Outcome("ModuleNotFoundError", 0, h)

\* visit_ImportFrom for `from <level dots><module> import f` in scope s;
\* module is "" where the statement names none. top is the module object
\* the name is taken from, 0 where there is none.
visit_ImportFrom_relative(h, M, F, s, level, module) ==
    LET cur == h[s].module_path
        is_package == cur \in DOMAIN F /\ F[cur] = "__init__"
        anchor == AnchorComponents(cur, is_package, level)
        components == IF module = "" THEN anchor ELSE Append(anchor, module)
        sub == IF module # "" /\ is_package
               THEN ResolveRegistered(h, M, Append(cur, module))
               ELSE Outcome("ok", 0, h)
        h1 == IF sub.obj # 0
              THEN SetAttribute(sub.h, s, module, sub.obj).h
              ELSE sub.h
        top == IF components = <<>>
               THEN Outcome("TypeError", 0, h1)
               ELSE ResolveRegistered(h1, M, components)
        out == IF sub.st # "ok"
               THEN sub
               ELSE IF top.st # "ok"
                    THEN top
                    ELSE visit_ImportFrom_name(top.h, s, top.obj, "f", "f")
    IN  [st |-> out.st, h |-> out.h, anchor |-> anchor,
         top |-> IF sub.st = "ok" THEN top.obj ELSE 0]

InitRelative ==
    /\ heap = TreeFixture
    /\ MODULES = [p \in {TreePaths[i] : i \in DOMAIN TreePaths} |->
                     TreeModule(CHOOSE i \in DOMAIN TreePaths : TreePaths[i] = p)]
    /\ \E stem \in {"c", "__init__"} :
           files = [p \in {TreePaths[i] : i \in DOMAIN TreePaths} |->
                       IF Len(p) = 3 /\ p[3] = "c" THEN stem
                       ELSE IF p[Len(p)] = "x" THEN "x" ELSE "__init__"]
    /\ \E i \in DOMAIN TreePaths : stack = <<TreeScope(i)>>
    /\ call = NoCall
    /\ res = NoRes
    /\ returned = {}
    /\ cache = EmptyMap
    /\ exc = ""
    /\ log = <<>>

\* a relative import statement of the module whose scope is stack[1]
RelativeImportFrom ==
    /\ Len(log) < MaxImports
    /\ \E level \in 1..MaxLevel, module \in {"", "x"} :
       \E r \in {visit_ImportFrom_relative(heap, MODULES, files, stack[1],
                                           level, module)} :
        /\ heap' = r.h
        /\ call' = [NoCall EXCEPT !.op = "visit_ImportFrom", !.obj = stack[1],
                                  !.name = module, !.path = r.anchor,
                                  !.target = r.top, !.tick = 1 - call.tick]
        /\ res' = [st |-> r.st, obj |-> r.top, grew |-> FALSE]
        /\ log' = Append(log, level)
    /\ UNCHANGED <<returned, MODULES, files, stack, cache, exc>>

\* the walk goes on in another module
RelativeSwitch ==
    /\ log # <<>>
    /\ \E i \in DOMAIN TreePaths :
        /\ stack' = <<TreeScope(i)>>
        /\ stack' # stack
    /\ call' = [NoCall EXCEPT !.op = "walk", !.tick = 1 - call.tick]
    /\ res' = NoRes
    /\ UNCHANGED <<heap, returned, MODULES, files, cache, exc, log>>

NextRelative == RelativeImportFrom \/ RelativeSwitch

SpecRelative == InitRelative /\ [][NextRelative]_vars

\* n + p - L of the import the step walks
AnchorLength ==
    Len(heap[stack[1]].module_path)
        + (IF files[heap[stack[1]].module_path] = "__init__" THEN 1 ELSE 0)
        - log'[Len(log')]

IsPrefix(p, q) == Len(p) <= Len(q) /\ p = SubSeq(q, 1, Len(p))

\* C29: the anchor of a relative import of level L in a module of n
\* components (p = 1 for a package __init__) is the first n + p - L
\* components of the path of the module; when n + p - L <= 0 there is no
\* anchor and the names are taken from no module of the path of the current
\* module, the current module included.
C29_RelativeAnchor ==
    [][call'.op = "visit_ImportFrom" =>
        LET cur == heap[stack[1]].module_path
        IN  /\ AnchorLength >= 1
                => call'.path = SubSeq(cur, 1, AnchorLength)
            /\ AnchorLength <= 0
                => /\ call'.path = <<>>
                   /\ \/ call'.target = 0
                      \/ ~IsPrefix(heap[call'.target].module_path, cur)]_vars

\* C29 for n + p - L >= 1
C29_PositiveLength ==
    [][(call'.op = "visit_ImportFrom" /\ AnchorLength >= 1) =>
          call'.path = SubSeq(heap[stack[1]].module_path, 1, AnchorLength)]_vars

\* what the code does for n + p - L = 0: the anchor is the current module
C29_ZeroLength ==
    [][(call'.op = "visit_ImportFrom" /\ AnchorLength = 0) =>
          /\ call'.path = heap[stack[1]].module_path
          /\ call'.name = "" => /\ res'.st = "ok"
                                /\ call'.target = stack[1] + 1]_vars

\* what the code does for n + p - L < 0: the anchor is the path without its
\* last L - n - p components
C29_NegativeLength ==
    [][(call'.op = "visit_ImportFrom" /\ AnchorLength < 0) =>
          LET n == Len(heap[stack[1]].module_path)
          IN  call'.path = SubSeq(heap[stack[1]].module_path, 1,
                                  IF n + AnchorLength > 0
                                  THEN n + AnchorLength ELSE 0)]_vars

\* `from ... import f` in a/b/x.py took f from a.b.x itself
C29_Self ==
    /\ call.op = "visit_ImportFrom"
    /\ heap[stack[1]].module_path = <<"a", "b", "x">>
    /\ log = <<3>>
    /\ call.name = ""
    /\ call.path = <<"a", "b", "x">>
    /\ res.st = "ok"
    /\ heap[stack[1]].objects["f"] = heap[heap[call.target].scope].objects["f"]
    /\ heap[call.target].scope = stack[1]

-----------------------------------------------------------------------------
(* SpecCycle: loads of source modules that import each other, with bodies
   long enough for a walk to fail after the module was imported back *)

MaxCycleStatements == 3     \* statements of the two source files together

CycleStatements ==
    {Stmt("Import", p) : p \in {"a", "b", "n"}} \cup {Stmt("Assign", "x")}

CycleBodies == UNION {[1..k -> CycleStatements] : k \in 0..MaxCycleStatements}

InitCycle ==
    /\ cache = EmptyMap
    /\ heap = LoadFixture
    /\ MODULES = [p \in {"builtins", "types"} |->
                     IF p = "builtins" THEN Lx.BUILTINS_MODULE
                     ELSE Lx.TYPES_MODULE]
    /\ files \in {f \in [SourcePaths -> CycleBodies] :
                     Len(f["a"]) + Len(f["b"]) <= MaxCycleStatements}
    /\ stack = <<>>
    /\ exc = ""
    /\ log = <<>>
    /\ call = NoCall
    /\ res = NoRes
    /\ returned = {}

NextCycle ==
    \/ ClientLoad
    \/ VisitImport
    \/ VisitAssign
    \/ Return
    \/ Unwind

SpecCycle == InitCycle /\ [][NextCycle]_vars

\* the Module objects whose walk raised, so that their entry was deleted
FailedModules ==
    {log[i].obj : i \in {j \in DOMAIN log : /\ log[j].how = "walk"
                                            /\ log[j].st # "ok"}}

\* the objects the scope of the registered module of path p binds
BoundIn(p) ==
    IF heap[MODULES[p]].cls = "Module"
    THEN {heap[heap[MODULES[p]].scope].objects[n] :
             n \in DOMAIN heap[heap[MODULES[p]].scope].objects}
    ELSE {}

\* C30: between loads no module of the registry binds a Module object that
\* was removed from the registry because its walk failed.
C30_NoStaleImport ==
    stack = <<>> =>
        \A p \in DOMAIN MODULES : BoundIn(p) \cap FailedModules = {}

\* a Module object whose walk failed is not registered afterwards
C30_FailedUnregistered ==
    stack = <<>> =>
        \A p \in DOMAIN MODULES : MODULES[p] \notin FailedModules

\* b imported a while a was walked, the walk of a failed afterwards, and b
\* is registered with a bound to the Module object that was removed
C30_Stale ==
    /\ stack = <<>>
    /\ "b" \in DOMAIN MODULES
    /\ "a" \notin DOMAIN MODULES
    /\ "a" \in DOMAIN heap[heap[MODULES["b"]].scope].objects
    /\ heap[heap[MODULES["b"]].scope].objects["a"] \in FailedModules

====
